---- MODULE Spec2Model ----
(***************************************************************************)
(* Model of the price-window analysis engine of the Agile Octopus pricing  *)
(* assistant: the window search (app/price_calculator.py), the calendar    *)
(* aggregator, the yearly statistics (app/stats_calculator.py), the        *)
(* incremental update planner (app/ytd_update_job.py) and the daily update *)
(* job (scripts/update_ytd_prices_and_stats.py).                           *)
(*                                                                         *)
(* Time is counted in minutes.  A UTC instant is the number of minutes     *)
(* since 00:00 UTC of day 0 of the modelled calendar; the timestamps the   *)
(* program exchanges are the ISO strings '...Z' of such instants, whose    *)
(* string order and string equality are the order and equality of the      *)
(* instants.  A datetime in the Europe/London zone is modelled by its wall *)
(* clock reading (minutes since local 00:00 of day 0): two aware datetimes *)
(* that share the one ZoneInfo object are compared and subtracted by their *)
(* wall clock readings, which is what Python does.                         *)
(***************************************************************************)
EXTENDS Integers, Sequences, FiniteSets, TLC

VARIABLES
    prices,     \* the slot list handed to the operation (or loaded from the archive)
    op,         \* the operation that has acted ("none" before)
    arg,        \* its other arguments
    out,        \* its return value
    stats,      \* the locals of the yearly statistics calculation
    job,        \* the daily update job: its locals and the archive files
    disk        \* one persisted file, the write in progress on it and its temporary file

vars == <<prices, op, arg, out, stats, job, disk>>

(***************************************************************************)
(* Bounds of the model.                                                    *)
(***************************************************************************)
MaxLen == 3
\* The number of calendar dates of the modelled year (dates 0 .. YearDays - 1).
YearDays == 4

(***************************************************************************)
(* Calendar.                                                               *)
(***************************************************************************)
SlotMinutes == 30
HourMinutes == 2 * SlotMinutes
DayMinutes == 24 * HourMinutes

\* The zone's summer time starts at 01:00 UTC of day 1 and ends at 01:00 UTC
\* of day 4 of the modelled calendar (the real zone: last Sunday of March and
\* of October, both at 01:00 UTC).
DstStart == 1 * DayMinutes + HourMinutes
DstEnd == 4 * DayMinutes + HourMinutes

UkOffset(t) == IF DstStart <= t /\ t < DstEnd THEN HourMinutes ELSE 0

\* utc_to_uk: the wall clock reading of the instant in the zone.
utc_to_uk(t) == t + UkOffset(t)

\* datetime.date() of a zone datetime: the day number of its wall clock.
DateOf(wall) == wall \div DayMinutes

UkDate(t) == DateOf(utc_to_uk(t))

\* The 'YYYY-MM-DD' prefix of the timestamp string: the UTC day number.
UtcDate(t) == t \div DayMinutes

(***************************************************************************)
(* Optional values: None is the empty sequence, Some(x) a singleton.       *)
(***************************************************************************)
None == <<>>
Some(x) == <<x>>
IsSome(o) == Len(o) = 1
Get(o) == o[1]

Abs(x) == IF x < 0 THEN -x ELSE x

Range(s) == {s[i] : i \in 1..Len(s)}

\* The list as it was given.
KeepOrder(s) == s

(***************************************************************************)
(* sorted(prices, key=valid_from): a stable sort.  Slot i of the list goes *)
(* to the position that follows the slots of a smaller valid_from and the  *)
(* earlier slots of the same valid_from.                                   *)
(***************************************************************************)
SortByValidFrom(s) ==
    LET n == Len(s)
        Before(j, i) ==
            \/ s[j].valid_from < s[i].valid_from
            \/ s[j].valid_from = s[i].valid_from /\ j < i
        placed == [i \in 1..n |->
                      [pos |-> 1 + Cardinality({j \in 1..n : Before(j, i)}), p |-> s[i]]]
    IN  SubSeq([k \in 1..n |-> (CHOOSE e \in Range(placed) : e.pos = k).p], 1, n)

RECURSIVE SumPrices(_)
SumPrices(s) ==
    IF s = <<>> THEN 0 ELSE s[1].value_inc_vat + SumPrices(Tail(s))

\* round(total / k, 2), in hundredths of a penny-unit.  With k <= 4 no
\* quotient lies exactly half-way between two hundredths.
Round2(total, k) == (200 * total + k) \div (2 * k)

\* int(duration_hours * 2), the duration being given in minutes.
SlotsNeeded(duration) == duration \div SlotMinutes

\* A window search that takes every window of the list for contiguous.
IsContiguousUnchecked(block) == TRUE

\* The inner loop of the window search: every adjacent pair of the block
\* satisfies valid_to == next valid_from.
IsContiguous(block) ==
    \A j \in 1..(Len(block) - 1) : block[j].valid_to = block[j + 1].valid_from

\* A window search without the "double-check".
DurationUnchecked(block, duration) == FALSE

\* The "double-check" of the window search: the wall-clock span of the block
\* differs from the requested duration by more than 60 seconds.
DurationMismatch(block, duration) ==
    LET start_time_uk == utc_to_uk(block[1].valid_from)
        end_time_uk == utc_to_uk(block[Len(block)].valid_to)
    IN  Abs((end_time_uk - start_time_uk) - duration) > 1

MkBlock(block) ==
    [start_time |-> block[1].valid_from,
     end_time |-> block[Len(block)].valid_to,
     start_time_uk |-> utc_to_uk(block[1].valid_from),
     end_time_uk |-> utc_to_uk(block[Len(block)].valid_to),
     average_price |-> Round2(SumPrices(block), Len(block)),
     total_cost |-> SumPrices(block),
     slots |-> block]

\* One pass of the sliding window of find_cheapest_block, from window i on.
\* best is the block found so far, bestTotal the total behind cheapest_avg
\* (None stands for float('inf')).  cheapest_avg is lowered before the
\* duration check, as in the source.
RECURSIVE CheapestLoop(_, _, _, _, _)
CheapestLoop(sp, duration, i, best, bestTotal) ==
    LET k == SlotsNeeded(duration) IN
    IF i > Len(sp) - k + 1 THEN best
    ELSE LET block == SubSeq(sp, i, i + k - 1)
             total == SumPrices(block)
         IN  IF ~IsContiguous(block)
             THEN CheapestLoop(sp, duration, i + 1, best, bestTotal)
             ELSE IF bestTotal = None \/ total < Get(bestTotal)
                  THEN IF DurationMismatch(block, duration)
                       THEN CheapestLoop(sp, duration, i + 1, best, Some(total))
                       ELSE CheapestLoop(sp, duration, i + 1,
                                         Some(MkBlock(block)), Some(total))
                  ELSE CheapestLoop(sp, duration, i + 1, best, bestTotal)

find_cheapest_block(ps, duration) ==
    IF ps = <<>> \/ duration < SlotMinutes THEN None
    ELSE IF Len(ps) < SlotsNeeded(duration) THEN None
    ELSE CheapestLoop(SortByValidFrom(ps), duration, 1, None, None)

RECURSIVE WorstLoop(_, _, _, _, _)
WorstLoop(sp, duration, i, worst, worstTotal) ==
    LET k == SlotsNeeded(duration) IN
    IF i > Len(sp) - k + 1 THEN worst
    ELSE LET block == SubSeq(sp, i, i + k - 1)
             total == SumPrices(block)
         IN  IF ~IsContiguous(block)
             THEN WorstLoop(sp, duration, i + 1, worst, worstTotal)
             ELSE IF worstTotal = None \/ total > Get(worstTotal)
                  THEN IF DurationMismatch(block, duration)
                       THEN WorstLoop(sp, duration, i + 1, worst, Some(total))
                       ELSE WorstLoop(sp, duration, i + 1,
                                      Some(MkBlock(block)), Some(total))
                  ELSE WorstLoop(sp, duration, i + 1, worst, worstTotal)

find_worst_block(ps, duration) ==
    IF ps = <<>> \/ duration < SlotMinutes THEN None
    ELSE IF Len(ps) < SlotsNeeded(duration) THEN None
    ELSE WorstLoop(SortByValidFrom(ps), duration, 1, None, None)

\* The future filter of find_future_cheapest_block: input order is kept.
FuturePrices(ps, now) == SelectSeq(ps, LAMBDA p : p.valid_from >= now)

\* The sliding window of find_future_cheapest_block: no sort, no contiguity
\* check, no duration check.
RECURSIVE FutureLoop(_, _, _, _, _)
FutureLoop(fp, duration, i, best, bestTotal) ==
    LET k == SlotsNeeded(duration) IN
    IF i > Len(fp) - k + 1 THEN best
    ELSE LET block == SubSeq(fp, i, i + k - 1)
             total == SumPrices(block)
         IN  IF bestTotal = None \/ total < Get(bestTotal)
             THEN FutureLoop(fp, duration, i + 1, Some(MkBlock(block)), Some(total))
             ELSE FutureLoop(fp, duration, i + 1, best, bestTotal)

find_future_cheapest_block(ps, duration, now) ==
    IF ps = <<>> \/ duration < SlotMinutes THEN None
    ELSE LET fp == FuturePrices(ps, now) IN
         IF fp = <<>> THEN None
         ELSE IF Len(fp) < SlotsNeeded(duration) THEN None
         ELSE FutureLoop(fp, duration, 1, None, None)

(***************************************************************************)
(* Inputs of the window search: slots from 23:30 UTC of day 0 to 01:30 UTC  *)
(* of day 1, around the start of summer time; slots of 30 and of 60        *)
(* minutes; lists in any order, with gaps, unique by valid_from.           *)
(***************************************************************************)
BlockInstants == {DstStart + i * SlotMinutes : i \in (-3)..1}
BlockValues == {1, 2}
BlockLengths == {SlotMinutes, 2 * SlotMinutes}
BlockDurations == {15, 30, 31, 45, 60, 90}
BlockNows == {DstStart - 3 * SlotMinutes, DstStart - 45, DstStart}

Slot(vf, len, v) == [valid_from |-> vf, valid_to |-> vf + len, value_inc_vat |-> v]

BlockSlots == {Slot(vf, len, v) : vf \in BlockInstants, len \in BlockLengths, v \in BlockValues}

UniqueValidFrom(s) ==
    \A i, j \in 1..Len(s) : i # j => s[i].valid_from # s[j].valid_from

SeqsUpTo(S, n) == UNION {[1..m -> S] : m \in 0..n}

BlockInputs == {s \in SeqsUpTo(BlockSlots, MaxLen) : UniqueValidFrom(s)}

NoArg == [duration |-> 0, now |-> 0]

StatsIdle ==
    [pc |-> "idle", current_date |-> 0, prices_data |-> <<>>,
     cheapest_block_prices |-> <<>>, daily_average_prices |-> <<>>,
     negative_slots |-> <<>>, total_days |-> 0, failed_days |-> 0]

\* The daily update job is not running.
JobIdle == [pc |-> "idle"]

\* No write is in progress.
DiskIdle == [pc |-> "idle"]

InitBlock ==
    /\ prices \in BlockInputs
    /\ op = "none"
    /\ arg = NoArg
    /\ out = None
    /\ stats = StatsIdle
    /\ job = JobIdle
    /\ disk = DiskIdle

FindCheapestBlock ==
    /\ op = "none"
    /\ \E d \in BlockDurations :
        /\ arg' = [duration |-> d, now |-> 0]
        /\ out' = find_cheapest_block(prices, d)
    /\ op' = "find_cheapest_block"
    /\ UNCHANGED <<prices, stats, job, disk>>

FindWorstBlock ==
    /\ op = "none"
    /\ \E d \in BlockDurations :
        /\ arg' = [duration |-> d, now |-> 0]
        /\ out' = find_worst_block(prices, d)
    /\ op' = "find_worst_block"
    /\ UNCHANGED <<prices, stats, job, disk>>

FindFutureCheapestBlock ==
    /\ op = "none"
    /\ \E d \in BlockDurations, n \in BlockNows :
        /\ arg' = [duration |-> d, now |-> n]
        /\ out' = find_future_cheapest_block(prices, d, n)
    /\ op' = "find_future_cheapest_block"
    /\ UNCHANGED <<prices, stats, job, disk>>

NextBlock == FindCheapestBlock \/ FindWorstBlock \/ FindFutureCheapestBlock

SpecBlock == InitBlock /\ [][NextBlock]_vars

(***************************************************************************)
(* Calendar aggregator: app/price_calculator.py.                           *)
(***************************************************************************)
\* A date key taken from the UTC date of the timestamp.
DateKeyUtc(p) == UtcDate(p.valid_from)

\* dt_uk = utc_to_uk(price['valid_from']); date_key = dt_uk.date()
DateKey(p) == DateOf(utc_to_uk(p.valid_from))

\* defaultdict(list) of the slots by local date, as the sequence of its
\* items in insertion order: a date is added when its first slot is met.
RECURSIVE GroupLoop(_, _, _)
GroupLoop(ps, i, groups) ==
    IF i > Len(ps) THEN groups
    ELSE LET date_key == DateKey(ps[i])
             at == {g \in 1..Len(groups) : groups[g].date = date_key}
         IN  IF at = {}
             THEN GroupLoop(ps, i + 1,
                            Append(groups, [date |-> date_key, prices |-> <<ps[i]>>]))
             ELSE GroupLoop(ps, i + 1,
                            [g \in 1..Len(groups) |->
                                IF g \in at
                                THEN [groups[g] EXCEPT !.prices = Append(@, ps[i])]
                                ELSE groups[g]])

group_prices_by_date(ps) == GroupLoop(ps, 1, <<>>)

\* prices_by_date[date]
PricesOf(groups, date) ==
    LET g == CHOOSE g \in 1..Len(groups) : groups[g].date = date
    IN  groups[g].prices

\* sorted(prices_by_date.keys())
RECURSIVE SortedSet(_)
SortedSet(S) ==
    IF S = {} THEN <<>>
    ELSE LET m == CHOOSE x \in S : \A y \in S : x <= y
         IN  <<m>> \o SortedSet(S \ {m})

SortedDates(groups) == SortedSet({groups[g].date : g \in 1..Len(groups)})

calculate_daily_averages_by_date(ps) ==
    IF ps = <<>> THEN <<>>
    ELSE LET groups == group_prices_by_date(ps)
             dates == SortedDates(groups)
         IN  [n \in 1..Len(dates) |->
                LET date_prices == PricesOf(groups, dates[n])
                IN  [date |-> dates[n],
                     average_price |-> Round2(SumPrices(date_prices), Len(date_prices))]]

filter_prices_from_uk_date(ps, start_date_uk) ==
    SelectSeq(ps, LAMBDA p : DateKey(p) >= start_date_uk)

\* min(prices, key=value_inc_vat): the first slot of lowest price.
find_lowest_price(ps) ==
    IF ps = <<>> THEN None
    ELSE LET i == CHOOSE i \in 1..Len(ps) :
                    \A j \in 1..Len(ps) :
                        \/ ps[i].value_inc_vat < ps[j].value_inc_vat
                        \/ ps[i].value_inc_vat = ps[j].value_inc_vat /\ i <= j
         IN  Some([price |-> ps[i].value_inc_vat,
                   time_from |-> ps[i].valid_from,
                   time_to |-> ps[i].valid_to,
                   time_from_uk |-> utc_to_uk(ps[i].valid_from),
                   time_to_uk |-> utc_to_uk(ps[i].valid_to)])

MinOf(S) == CHOOSE x \in S : \A y \in S : x <= y
MaxOf(S) == CHOOSE x \in S : \A y \in S : x >= y

\* A set of excluded slots that is always empty.
CheapestBlockSlotsUtcEmpty(cheapest_block) == {}

\* cheapest_block_slots_utc: the valid_from values of the cheapest block.
CheapestBlockSlotsUtc(cheapest_block) ==
    IF IsSome(cheapest_block) /\ Get(cheapest_block).slots # <<>>
    THEN {Get(cheapest_block).slots[i].valid_from : i \in 1..Len(Get(cheapest_block).slots)}
    ELSE {}

\* cheapest_block_started: the block's local start <= now in local time, two
\* datetimes of the same zone compared by wall clock.
CheapestBlockStarted(cheapest_block, now) ==
    /\ IsSome(cheapest_block)
    /\ Get(cheapest_block).slots # <<>>
    /\ Get(cheapest_block).start_time_uk <= utc_to_uk(now)

\* remaining_prices: the day's slots outside the cheapest block, the future
\* ones only unless the cheapest block has started.
RemainingPrices(day_prices, cheapest_block, now) ==
    SortByValidFrom(
        SelectSeq(day_prices,
                  LAMBDA p : /\ p.valid_from \notin CheapestBlockSlotsUtc(cheapest_block)
                             /\ \/ CheapestBlockStarted(cheapest_block, now)
                                \/ p.valid_from >= now))

\* The longest-run count of the remaining slots.
RECURSIVE MaxContiguousLoop(_, _, _, _)
MaxContiguousLoop(rp, i, current_contiguous, max_contiguous) ==
    IF i > Len(rp) THEN max_contiguous
    ELSE IF rp[i - 1].valid_to = rp[i].valid_from
         THEN MaxContiguousLoop(rp, i + 1, current_contiguous + 1,
                                IF current_contiguous + 1 > max_contiguous
                                THEN current_contiguous + 1 ELSE max_contiguous)
         ELSE MaxContiguousLoop(rp, i + 1, 1, max_contiguous)

MaxContiguous(rp) == MaxContiguousLoop(rp, 2, 1, 1)

\* The checks of the remaining block: its slots are remaining slots, none is
\* a slot of the cheapest block, there are K of them, and its wall-clock
\* span is the duration within 15 minutes.
ValidatedRemaining(crb, rp, cheapest_block, duration) ==
    IF ~(IsSome(crb) /\ Get(crb).slots # <<>>) THEN crb
    ELSE LET remaining_block_slots ==
                 {Get(crb).slots[i].valid_from : i \in 1..Len(Get(crb).slots)}
             remaining_prices_set == {rp[i].valid_from : i \in 1..Len(rp)}
         IN  IF remaining_block_slots \ remaining_prices_set # {} THEN None
             ELSE IF remaining_block_slots \cap CheapestBlockSlotsUtc(cheapest_block) # {}
                  THEN None
             ELSE IF Len(Get(crb).slots) # SlotsNeeded(duration) THEN None
             ELSE IF Abs((Get(crb).end_time_uk - Get(crb).start_time_uk) - duration) > 15
                  THEN None
             ELSE crb

CheapestRemainingBlock(day_prices, cheapest_block, duration, now) ==
    LET rp == RemainingPrices(day_prices, cheapest_block, now)
    IN  IF Len(rp) >= SlotsNeeded(duration)
        THEN ValidatedRemaining(
                 IF MaxContiguous(rp) < SlotsNeeded(duration) THEN None
                 ELSE find_cheapest_block(rp, duration),
                 rp, cheapest_block, duration)
        ELSE None

\* One day result of calculate_cheapest_per_day; now is None or Some(instant).
DayResult(date, bucket, duration, now) ==
    LET day_prices == SortByValidFrom(bucket)
        cheapest_block == find_cheapest_block(day_prices, duration)
    IN  [date |-> date,
         lowest_price |-> find_lowest_price(day_prices),
         min_price |-> MinOf({day_prices[i].value_inc_vat : i \in 1..Len(day_prices)}),
         max_price |-> MaxOf({day_prices[i].value_inc_vat : i \in 1..Len(day_prices)}),
         cheapest_block |-> cheapest_block,
         cheapest_remaining_block |->
             IF IsSome(now)
             THEN CheapestRemainingBlock(day_prices, cheapest_block, duration, Get(now))
             ELSE None,
         worst_block |-> find_worst_block(day_prices, duration)]

calculate_cheapest_per_day(ps, duration, now) ==
    IF ps = <<>> THEN <<>>
    ELSE LET groups == group_prices_by_date(ps)
             dates == SortedDates(groups)
         IN  [n \in 1..Len(dates) |->
                DayResult(dates[n], PricesOf(groups, dates[n]), duration, now)]

\* Inputs: 30-minute slots from 21:30 to 23:30 UTC of day 2, in summer time:
\* 22:30, 23:00, 23:30 local time of day 2 and 00:00, 00:30 of day 3.  Lists
\* in any order, with gaps and with repeated valid_from.
DayInstants == {2 * DayMinutes + 21 * HourMinutes + i * SlotMinutes : i \in 1..5}
DayValues == {1, 2}
DaySlots == {Slot(vf, SlotMinutes, v) : vf \in DayInstants, v \in DayValues}
\* And 30-minute slots from 23:30 UTC of day 3 to 01:30 UTC of day 4, the
\* night summer time ends: 00:30, 01:00 and 01:30 summer time, then 01:00
\* and 01:30 again, all of local day 4.
AutumnInstants == {DstEnd + i * SlotMinutes : i \in (-3)..1}
AutumnSlots == {Slot(vf, SlotMinutes, v) : vf \in AutumnInstants, v \in DayValues}
\* And the five slots of that night in one list, at prices that differ.
AutumnRunValues == {0, 1, 5, 10}
AutumnRuns ==
    {[i \in 1..5 |-> Slot(DstEnd + (i - 4) * SlotMinutes, SlotMinutes, v[i])] :
        v \in [1..5 -> AutumnRunValues]}
DayInputs == SeqsUpTo(DaySlots, MaxLen) \cup SeqsUpTo(AutumnSlots, MaxLen) \cup AutumnRuns
DayDurations == {SlotMinutes, 2 * SlotMinutes}
DayNows ==
    {None} \cup {Some(2 * DayMinutes + 21 * HourMinutes + m) : m \in {0, 45, 90, 2 * HourMinutes}}
           \cup {Some(DstEnd - 20), Some(DstEnd + 10)}
DayStartDates == 2..4

InitDay ==
    /\ prices \in DayInputs
    /\ op = "none"
    /\ arg = NoArg
    /\ out = None
    /\ stats = StatsIdle
    /\ job = JobIdle
    /\ disk = DiskIdle

GroupPricesByDate ==
    /\ op = "none"
    /\ op' = "group_prices_by_date"
    /\ out' = group_prices_by_date(prices)
    /\ UNCHANGED <<prices, arg, stats, job, disk>>

CalculateDailyAveragesByDate ==
    /\ op = "none"
    /\ op' = "calculate_daily_averages_by_date"
    /\ out' = calculate_daily_averages_by_date(prices)
    /\ UNCHANGED <<prices, arg, stats, job, disk>>

FilterPricesFromUkDate ==
    /\ op = "none"
    /\ \E start_date_uk \in DayStartDates :
        /\ arg' = [start_date_uk |-> start_date_uk]
        /\ out' = filter_prices_from_uk_date(prices, start_date_uk)
    /\ op' = "filter_prices_from_uk_date"
    /\ UNCHANGED <<prices, stats, job, disk>>

CalculateCheapestPerDay ==
    /\ op = "none"
    /\ \E d \in DayDurations, n \in DayNows :
        /\ arg' = [duration |-> d, now |-> n]
        /\ out' = calculate_cheapest_per_day(prices, d, n)
    /\ op' = "calculate_cheapest_per_day"
    /\ UNCHANGED <<prices, stats, job, disk>>

NextDay ==
    \/ GroupPricesByDate
    \/ CalculateDailyAveragesByDate
    \/ FilterPricesFromUkDate
    \/ CalculateCheapestPerDay

SpecDay == InitDay /\ [][NextDay]_vars

(***************************************************************************)
(* Yearly statistics: StatsCalculator.calculate_2025_stats.  The year is   *)
(* the dates 0 .. YearDays - 1 of the modelled calendar.                   *)
(***************************************************************************)
BlockDurationMinutes == 210

\* calculate_daily_average_price: round(sum / len, 2) in hundredths, None on
\* an empty list.
calculate_daily_average_price(ps) ==
    IF ps = <<>> THEN None ELSE Some(Round2(SumPrices(ps), Len(ps)))

\* The slots of the raw data whose valid_from string starts with the date.
PricesForDate(all_prices, date) ==
    SelectSeq(all_prices, LAMBDA p : UtcDate(p.valid_from) = date)

\* Strictly negative prices only.
NegativeSlotsStrict(ps, date) ==
    LET neg == SelectSeq(ps, LAMBDA p : p.value_inc_vat < 0)
    IN  [i \in 1..Len(neg) |->
            [date |-> date, price_p_per_kwh |-> neg[i].value_inc_vat,
             valid_from |-> neg[i].valid_from, valid_to |-> neg[i].valid_to]]

\* The slots of a day at a negative or zero price.
NegativeSlotsOf(ps, date) ==
    LET neg == SelectSeq(ps, LAMBDA p : p.value_inc_vat <= 0)
    IN  [i \in 1..Len(neg) |->
            [date |-> date, price_p_per_kwh |-> neg[i].value_inc_vat,
             valid_from |-> neg[i].valid_from, valid_to |-> neg[i].valid_to]]

\* Inputs: short lists of 30-minute slots in any order, among them a slot at
\* 23:30 UTC in summer time (00:30 local time of the next date), and runs of
\* seven or eight contiguous slots that end around 00:00 UTC in summer time.
StatsInstants ==
    {12 * HourMinutes,
     DayMinutes + 23 * HourMinutes + SlotMinutes,
     2 * DayMinutes + 12 * HourMinutes}
StatsValues == {-1, 0, 2}
StatsSlots == {Slot(vf, SlotMinutes, v) : vf \in StatsInstants, v \in StatsValues}

Run(start, n, v) ==
    SubSeq([i \in 1..n |-> Slot(start + (i - 1) * SlotMinutes, SlotMinutes, v)], 1, n)

StatsRuns ==
    {Run(2 * DayMinutes + 20 * HourMinutes + SlotMinutes, n, v) : n \in 7..8, v \in StatsValues}

StatsInputs == SeqsUpTo(StatsSlots, MaxLen) \cup StatsRuns

InitStats ==
    /\ prices \in StatsInputs
    /\ op = "calculate_2025_stats"
    /\ arg = NoArg
    /\ out = None
    /\ stats = [StatsIdle EXCEPT !.pc = "loop"]
    /\ job = JobIdle
    /\ disk = DiskIdle

\* One iteration of the loop over the dates of the year.
StatsProcessDay ==
    /\ stats.pc = "loop"
    /\ stats.current_date <= YearDays - 1
    /\ LET date == stats.current_date
           found == PricesForDate(prices, date)
           prices_data == SortByValidFrom(found)
           cheapest_block == find_cheapest_block(prices_data, BlockDurationMinutes)
           daily_avg == calculate_daily_average_price(prices_data)
       IN  IF found = <<>>
           THEN stats' = [stats EXCEPT !.failed_days = @ + 1,
                                       !.prices_data = <<>>,
                                       !.current_date = @ + 1]
           ELSE stats' = [stats EXCEPT
                    !.cheapest_block_prices =
                        IF IsSome(cheapest_block)
                        THEN Append(@, Get(cheapest_block).average_price) ELSE @,
                    !.daily_average_prices =
                        IF IsSome(daily_avg) /\ Get(daily_avg) # 0
                        THEN Append(@, Get(daily_avg)) ELSE @,
                    !.negative_slots = @ \o NegativeSlotsOf(prices_data, date),
                    !.total_days = @ + 1,
                    !.prices_data = prices_data,
                    !.current_date = @ + 1]
    /\ UNCHANGED <<prices, op, arg, out, job, disk>>

\* The end of the loop: the aggregates of the negative-pricing summary and
\* the day counts (hours in tenths).
StatsFinish ==
    /\ stats.pc = "loop"
    /\ stats.current_date > YearDays - 1
    /\ stats' = [stats EXCEPT !.pc = "done"]
    /\ out' = Some([days_processed |-> stats.total_days,
                    days_failed |-> stats.failed_days,
                    total_negative_slots |-> Len(stats.negative_slots),
                    total_negative_hours |-> 5 * Len(stats.negative_slots)])
    /\ UNCHANGED <<prices, op, arg, job, disk>>

NextStats == StatsProcessDay \/ StatsFinish

SpecStats == InitStats /\ [][NextStats]_vars

(***************************************************************************)
(* Incremental update planner: app/ytd_update_job.py.                      *)
(***************************************************************************)
\* A local midnight read as if it were a UTC instant.
LocalToUtcNoOffset(wall) == wall

\* datetime(...).replace(tzinfo=UK_TZ).astimezone(timezone.utc): the instant
\* of a wall clock reading of the zone (fold = 0).
LocalToUtc(wall) ==
    IF DstStart <= wall - HourMinutes /\ wall - HourMinutes < DstEnd
    THEN wall - HourMinutes
    ELSE wall

\* The start of the next local day, as a UTC instant.
end_of_uk_day_exclusive_utc(day_uk) == LocalToUtc((day_uk + 1) * DayMinutes)

\* max(prices, key=valid_to): the latest valid_to, None on an empty list.
latest_valid_to_utc(ps) ==
    IF ps = <<>> THEN None
    ELSE Some(MaxOf({ps[i].valid_to : i \in 1..Len(ps)}))

\* The first or the last slot of the list is of a local date after today.
prices_include_tomorrow_edge(ps, now_uk) ==
    IF ps = <<>> THEN FALSE
    ELSE LET first_uk == utc_to_uk(ps[1].valid_from)
             last_uk == utc_to_uk(ps[Len(ps)].valid_from)
             today_uk == DateOf(now_uk)
         IN  DateOf(first_uk) > today_uk \/ DateOf(last_uk) > today_uk

\* determine_fetch_plan; now is the current instant, None means no fetch.
determine_fetch_plan(existing_prices, now) ==
    LET now_uk == utc_to_uk(now)
        today_uk == DateOf(now_uk)
        tomorrow_uk == today_uk + 1
        last_to == latest_valid_to_utc(existing_prices)
        period_to == end_of_uk_day_exclusive_utc(tomorrow_uk)
    IN  IF existing_prices # <<>> /\ prices_include_tomorrow_edge(existing_prices, now_uk)
        THEN None
        ELSE IF last_to = None
        THEN Some([period_from |-> LocalToUtc(today_uk * DayMinutes),
                   period_to |-> period_to,
                   reason |-> "no_existing_data_fetch_today_and_tomorrow"])
        ELSE IF DateOf(utc_to_uk(Get(last_to))) <= today_uk - 2
        THEN Some([period_from |-> Get(last_to),
                   period_to |-> period_to,
                   reason |-> "gap_fetch_from_last_to_through_tomorrow"])
        ELSE Some([period_from |-> Get(last_to),
                   period_to |-> period_to,
                   reason |-> "covers_today_fetch_today_and_tomorrow"])

\* A dedupe in which the last slot of every valid_from wins.
SeenLast(ps) ==
    LET indexed == [i \in 1..Len(ps) |-> [idx |-> i, p |-> ps[i]]]
        IsLast(e) == \A k \in (e.idx + 1)..Len(ps) : ps[k].valid_from # e.p.valid_from
        lasts == SelectSeq(indexed, IsLast)
    IN  SubSeq([i \in 1..Len(lasts) |-> lasts[i].p], 1, Len(lasts))

\* A dedupe that drops a slot only when the slot just before it has the same
\* valid_from.
SeenAdjacent(ps) ==
    LET indexed == [i \in 1..Len(ps) |-> [idx |-> i, p |-> ps[i]]]
        IsNew(e) == e.idx = 1 \/ ps[e.idx - 1].valid_from # e.p.valid_from
        kept == SelectSeq(indexed, IsNew)
    IN  SubSeq([i \in 1..Len(kept) |-> kept[i].p], 1, Len(kept))

\* The values of the dict 'seen' of dedupe_sort_prices, in insertion order:
\* of every valid_from the first slot of the list.
Seen(ps) ==
    LET indexed == [i \in 1..Len(ps) |-> [idx |-> i, p |-> ps[i]]]
        IsFirst(e) == \A k \in 1..(e.idx - 1) : ps[k].valid_from # e.p.valid_from
        firsts == SelectSeq(indexed, IsFirst)
    IN  SubSeq([i \in 1..Len(firsts) |-> firsts[i].p], 1, Len(firsts))

\* A dedupe and sort in which the last slot of every valid_from wins.
DedupeSortLastWins(ps) == SortByValidFrom(SeenLast(ps))

dedupe_sort_prices(ps) == SortByValidFrom(Seen(ps))

\* The defects one slot of the sorted series adds, given the slots before it.
ErrorsAt(sp, idx) ==
    LET p == sp[idx]
        dup == IF \E k \in 1..(idx - 1) : sp[k].valid_from = p.valid_from
               THEN <<"duplicate valid_from">> ELSE <<>>
        back == IF idx > 1 /\ p.valid_from <= sp[idx - 1].valid_from
                THEN <<"backwards_or_equal_time">> ELSE <<>>
        inval == IF p.valid_to <= p.valid_from THEN <<"invalid_interval">> ELSE <<>>
        gap == IF idx > 1 /\ p.valid_from # sp[idx - 1].valid_to
               THEN <<"gap_or_overlap">> ELSE <<>>
        dur == IF p.valid_to - p.valid_from # SlotMinutes
               THEN <<"unexpected_slot_duration">> ELSE <<>>
    IN  dup \o back \o inval \o gap \o dur

\* The loop over the sorted series: the defects of the slots lo .. hi, in the
\* order of the slots (the range is evaluated by halves).
RECURSIVE ValidateLoop(_, _, _)
ValidateLoop(sp, lo, hi) ==
    IF lo > hi THEN <<>>
    ELSE IF lo = hi THEN ErrorsAt(sp, lo)
    ELSE LET mid == (lo + hi) \div 2
         IN  ValidateLoop(sp, lo, mid) \o ValidateLoop(sp, mid + 1, hi)

\* validate_price_series: the defects of the series sorted by valid_from.
validate_price_series(ps) ==
    IF ps = <<>> THEN <<>>
    ELSE LET sp == SortByValidFrom(ps)
         IN  ValidateLoop(sp, 1, Len(sp))

expected_slot_count(period_from, period_to) ==
    IF period_to <= period_from THEN 0
    ELSE (period_to - period_from) \div SlotMinutes

\* Inputs: slots at 12:00 UTC of day 0 (winter), at 22:30 UTC of day 1 and at
\* 22:30, 23:00 and 23:30 UTC of day 3 (summer time: 23:30 local time of day
\* 3, 00:00 and 00:30 of day 4), of 30 or 60 minutes; lists in any order, with
\* repeated valid_from.  The job runs at 19:05 local time of day 3 or day 0.
PlanInstants ==
    {12 * HourMinutes,
     DayMinutes + 22 * HourMinutes + SlotMinutes,
     3 * DayMinutes + 22 * HourMinutes + SlotMinutes,
     3 * DayMinutes + 23 * HourMinutes,
     3 * DayMinutes + 23 * HourMinutes + SlotMinutes}
PlanSlots ==
    {Slot(vf, len, v) : vf \in PlanInstants, len \in {SlotMinutes, 2 * SlotMinutes}, v \in {1, 2}}
PlanInputs == SeqsUpTo(PlanSlots, MaxLen)
PlanNows == {3 * DayMinutes + 18 * HourMinutes + 5, 19 * HourMinutes + 5}

InitPlan ==
    /\ prices \in PlanInputs
    /\ op = "none"
    /\ arg = NoArg
    /\ out = None
    /\ stats = StatsIdle
    /\ job = JobIdle
    /\ disk = DiskIdle

DetermineFetchPlan ==
    /\ op = "none"
    /\ \E n \in PlanNows :
        /\ arg' = [duration |-> 0, now |-> n]
        /\ out' = determine_fetch_plan(prices, n)
    /\ op' = "determine_fetch_plan"
    /\ UNCHANGED <<prices, stats, job, disk>>

DedupeSortPrices ==
    /\ op = "none"
    /\ op' = "dedupe_sort_prices"
    /\ out' = dedupe_sort_prices(prices)
    /\ UNCHANGED <<prices, arg, stats, job, disk>>

ValidatePriceSeries ==
    /\ op = "none"
    /\ op' = "validate_price_series"
    /\ out' = validate_price_series(prices)
    /\ UNCHANGED <<prices, arg, stats, job, disk>>

NextPlan == DetermineFetchPlan \/ DedupeSortPrices \/ ValidatePriceSeries

SpecPlan == InitPlan /\ [][NextPlan]_vars

(***************************************************************************)
(* Daily update job: scripts/update_ytd_prices_and_stats.py, main.         *)
(*                                                                         *)
(* job.raw[r] is the price list of the archive file of region r and        *)
(* job.before[r] what it was when the run started; job.response[r] and     *)
(* job.errs[r] keep, for a region the loop has processed, what the service *)
(* answered and what the validation of that iteration returned.            *)
(***************************************************************************)
\* The configured regions, in the order of the configuration.
Regions == <<"A", "B">>
RegionSet == Range(Regions)

BoundarySlack == 2

is_slot_count_reasonable(actual, expected) ==
    IF expected <= 0 THEN TRUE
    ELSE actual >= MaxOf({0, expected - BoundarySlack})

\* A gate that lets every merged series through.
ValidationIgnored(errs) == FALSE

\* 'if errs: raise RuntimeError' after the validation of the merged series.
ValidationFailed(errs) == errs # <<>>

\* What the service answered: nothing was asked, the request raised, or the
\* concatenated pages of results.
NoResponse == [status |-> "none", results |-> <<>>]
FetchError == [status |-> "error", results |-> <<>>]
Fetched(results) == [status |-> "ok", results |-> results]

\* The outcome of one iteration of the region loop.
Outcome(written, errs, error) == [written |-> written, errs |-> errs, error |-> error]

\* The try block of the region loop: the price list it writes to the archive
\* (None when it writes nothing), the result of the validation it ran (None
\* when it ran none) and the message of the exception it raised (None when it
\* raised none).
RegionBody(existing_prices, now, loaded, response) ==
    LET plan == determine_fetch_plan(existing_prices, now)
    IN  IF ~loaded
        THEN Outcome(None, None, Some("load_failed"))
        ELSE IF plan = None
        THEN LET errs == validate_price_series(existing_prices)
             IN  IF errs # <<>>
                 THEN Outcome(None, Some(errs), Some("validation_failed_without_fetch"))
                 ELSE Outcome(None, Some(errs), None)
        ELSE IF response.status # "ok"
        THEN Outcome(None, None, Some("fetch_failed"))
        ELSE LET fetched == dedupe_sort_prices(response.results)
                 expected == expected_slot_count(Get(plan).period_from, Get(plan).period_to)
             IN  IF expected # 0 /\ ~is_slot_count_reasonable(Len(fetched), expected)
                 THEN Outcome(None, None, Some("fetched_slot_count_too_low"))
                 ELSE LET merged_prices == dedupe_sort_prices(existing_prices \o fetched)
                          errs == validate_price_series(merged_prices)
                      IN  IF ValidationFailed(errs)
                          THEN Outcome(None, Some(errs), Some("validation_failed"))
                          ELSE Outcome(Some(merged_prices), Some(errs), None)

\* The job runs at 19:05 of day 0, the day before summer time starts: today
\* has 48 slots and tomorrow 46.
JobNows == {19 * HourMinutes + 5}

\* The last slots of day 0.
LastSlotOfToday == DayMinutes - SlotMinutes

\* Archive files at the start of a run: none, one that ends with today's last
\* slot or last two slots, one that holds tomorrow's first slot already, and
\* two with a missing slot (with and without a slot of tomorrow).
JobArchives ==
    {<<>>,
     Run(LastSlotOfToday, 1, 1),
     Run(LastSlotOfToday - SlotMinutes, 2, 1),
     Run(LastSlotOfToday, 2, 1),
     Run(LastSlotOfToday - 2 * SlotMinutes, 1, 1) \o Run(LastSlotOfToday, 1, 1),
     Run(LastSlotOfToday - SlotMinutes, 1, 1) \o Run(DayMinutes, 1, 1)}

Reverse(s) == SubSeq([i \in 1..Len(s) |-> s[Len(s) + 1 - i]], 1, Len(s))

\* Answers of the service to a request for [period_from, period_to): the
\* request raises; or it returns every slot of the window, in chronological
\* or in reverse order; the window without its first slot; the window and
\* the slot before it; the window without its last three slots; the window
\* without its second slot; nothing.
Responses(plan) ==
    IF plan = None THEN {NoResponse}
    ELSE LET from == Get(plan).period_from
             n == expected_slot_count(from, Get(plan).period_to)
         IN  {FetchError,
              Fetched(Run(from, n, 2)),
              Fetched(Reverse(Run(from, n, 2))),
              Fetched(Run(from + SlotMinutes, n - 1, 2)),
              Fetched(Run(from - SlotMinutes, n + 1, 2)),
              Fetched(Run(from, n - 3, 2)),
              Fetched(Run(from, 1, 2) \o Run(from + 2 * SlotMinutes, n - 2, 2)),
              Fetched(<<>>)}

\* What can happen to an iteration: the archive cannot be loaded, or it is
\* loaded and the service answers.
Happenings(existing_prices, now) ==
    {[loaded |-> FALSE, response |-> NoResponse]}
    \cup {[loaded |-> TRUE, response |-> x] :
            x \in Responses(determine_fetch_plan(existing_prices, now))}

\* The statistics records: one per region and the national one.
StatsKeys == RegionSet \cup {"national"}

InitJob ==
    /\ prices = <<>>
    /\ op = "main"
    /\ arg = NoArg
    /\ out = None
    /\ stats = StatsIdle
    /\ disk = DiskIdle
    /\ \E n \in JobNows, files \in [RegionSet -> JobArchives] :
        job = [pc |-> "regions",
               now |-> n,
               idx |-> 1,
               raw |-> files,
               before |-> files,
               response |-> [r \in RegionSet |-> NoResponse],
               errs |-> [r \in RegionSet |-> None],
               succeeded |-> <<>>,
               failed |-> <<>>,
               status |-> None,
               sidx |-> 1,
               cidx |-> 1,
               stats_files |-> [k \in StatsKeys |-> "old"],
               stats_calls |-> <<>>,
               cache_calls |-> <<>>]

\* A loop that stops at the first region that fails.
NextIndexAbort(idx, error) == IF error = None THEN idx + 1 ELSE Len(Regions) + 1

\* 'for region in regions' with the except clause inside the loop: the next
\* iteration follows whether the body raised or not.
NextIndex(idx, error) == idx + 1

\* _atomic_write_json returns, or raises and leaves the archive as it was.
WriteOutcomes(written) == IF written = None THEN {"none"} ELSE {"written", "write_failed"}

\* One iteration of 'for region in regions', its except clause included.
JobRegion ==
    /\ job.pc = "regions"
    /\ job.idx <= Len(Regions)
    /\ LET region == Regions[job.idx]
           existing_prices == job.raw[region]
       IN  \E h \in Happenings(existing_prices, job.now) :
           \E b \in {RegionBody(existing_prices, job.now, h.loaded, h.response)} :
           \E w \in WriteOutcomes(b.written) :
           \E error \in {IF w = "write_failed" THEN Some("write_failed") ELSE b.error} :
              job' = [job EXCEPT
                        !.idx = NextIndex(@, error),
                        !.raw[region] = IF w = "written" THEN Get(b.written) ELSE @,
                        !.response[region] = h.response,
                        !.errs[region] = b.errs,
                        !.succeeded = IF error = None THEN Append(@, region) ELSE @,
                        !.failed = IF error = None THEN @
                                   ELSE Append(@, [region |-> region, msg |-> Get(error)])]
    /\ UNCHANGED <<prices, op, arg, out, stats, disk>>

\* A job that goes on whatever happened to the regions.
AnyFailedIgnored(failed) == FALSE

\* 'if failed:' after the region loop.
AnyFailed(failed) == failed # <<>>

\* After the loop: 'if failed: return 1'; otherwise the job goes on to the
\* regeneration of the statistics.
JobRegionsDone ==
    /\ job.pc = "regions"
    /\ job.idx > Len(Regions)
    /\ IF AnyFailed(job.failed)
       THEN job' = [job EXCEPT !.pc = "done", !.status = Some(1)]
       ELSE job' = [job EXCEPT !.pc = "stats"]
    /\ UNCHANGED <<prices, op, arg, out, stats, disk>>

\* What save_stats leaves in the file it writes: open(filepath, 'w') raises
\* and the file is as it was; json.dump raises after the file was truncated
\* and holds a part of the record; or the whole record is written.
SaveOutcomes == {"open_failed", "dump_failed", "saved"}

FileAfterSave(content, outcome) ==
    CASE outcome = "open_failed" -> content
      [] outcome = "dump_failed" -> "partial"
      [] outcome = "saved" -> "new"

\* calculate_year_stats for a region: it returns the region's record or
\* raises.
YearStatsOutcomes == {"calculated", "calculate_failed"}

\* One iteration of the loop of the statistics step: calculate_year_stats,
\* then save_stats; an exception ends the run with status 1.
JobStatsRegion ==
    /\ job.pc = "stats"
    /\ job.sidx <= Len(Regions)
    /\ LET region == Regions[job.sidx]
       IN  \E c \in YearStatsOutcomes, o \in SaveOutcomes :
              IF c = "calculate_failed"
              THEN /\ o = "saved"
                   /\ job' = [job EXCEPT
                                !.stats_calls = Append(@, region),
                                !.pc = "done",
                                !.status = Some(1)]
              ELSE job' = [job EXCEPT
                             !.stats_calls = Append(@, region),
                             !.stats_files[region] = FileAfterSave(@, o),
                             !.sidx = IF o = "saved" THEN @ + 1 ELSE @,
                             !.pc = IF o = "saved" THEN @ ELSE "done",
                             !.status = IF o = "saved" THEN @ ELSE Some(1)]
    /\ UNCHANGED <<prices, op, arg, out, stats, disk>>

\* load_stats of a record: None unless the file holds a whole record.
LoadedRecord(content) == IF content = "partial" THEN None ELSE Some(content)

\* The end of the statistics step: calculate_national_averages over the
\* regional records, then save_national_stats; save_national_stats raises on
\* the None that calculate_national_averages returns without records.
JobStatsNational ==
    /\ job.pc = "stats"
    /\ job.sidx > Len(Regions)
    /\ LET loaded == {r \in RegionSet : IsSome(LoadedRecord(job.stats_files[r]))}
       IN  \E o \in SaveOutcomes :
              IF loaded = {}
              THEN /\ o = "saved"
                   /\ job' = [job EXCEPT !.pc = "done", !.status = Some(1)]
              ELSE job' = [job EXCEPT
                             !.stats_files["national"] = FileAfterSave(@, o),
                             !.pc = IF o = "saved" THEN "cache" ELSE "done",
                             !.status = IF o = "saved" THEN @ ELSE Some(1)]
    /\ UNCHANGED <<prices, op, arg, out, stats, disk>>

\* One iteration of the loop of the cache step: refresh_cache_for_region
\* returns or raises; an exception ends the run with status 1.
JobCacheRegion ==
    /\ job.pc = "cache"
    /\ job.cidx <= Len(Regions)
    /\ \E refreshed \in BOOLEAN :
          job' = [job EXCEPT
                    !.cache_calls = Append(@, Regions[job.cidx]),
                    !.cidx = IF refreshed THEN @ + 1 ELSE @,
                    !.pc = IF refreshed THEN @ ELSE "done",
                    !.status = IF refreshed THEN @ ELSE Some(1)]
    /\ UNCHANGED <<prices, op, arg, out, stats, disk>>

\* 'return 0' after the cache step.
JobCacheDone ==
    /\ job.pc = "cache"
    /\ job.cidx > Len(Regions)
    /\ job' = [job EXCEPT !.pc = "done", !.status = Some(0)]
    /\ UNCHANGED <<prices, op, arg, out, stats, disk>>

NextJob ==
    \/ JobRegion
    \/ JobRegionsDone
    \/ JobStatsRegion
    \/ JobStatsNational
    \/ JobCacheRegion
    \/ JobCacheDone

SpecJob == InitJob /\ [][NextJob]_vars

(***************************************************************************)
(* Persistence: StatsCalculator.save_stats / save_national_stats /         *)
(* load_stats (app/stats_calculator.py) and _atomic_write_json /           *)
(* _load_raw_prices (scripts/update_ytd_prices_and_stats.py).              *)
(*                                                                         *)
(* The text of a file is a sequence of chunks: a JSON document is "{", the *)
(* chunks of the record, "}".  A writer replaces the record disk.old of    *)
(* one file by disk.new while a reader loads the file at any moment.       *)
(***************************************************************************)
\* json.dumps: the text of a record.
Encode(record) == <<"{">> \o record \o <<"}">>

\* json.load: the record of a whole document, None (JSONDecodeError) on any
\* other text.
Decode(text) ==
    IF Len(text) >= 2 /\ text[1] = "{" /\ text[Len(text)] = "}"
    THEN Some(SubSeq(text, 2, Len(text) - 1))
    ELSE None

Chunks == {"1", "2"}
Records == SeqsUpTo(Chunks, MaxLen)

\* The files: a regional statistics record, the national record, or a
\* historical archive.
FileKinds == {"stats", "national", "archive"}

InitWrite ==
    /\ prices = <<>>
    /\ op = "none"
    /\ arg = NoArg
    /\ out = None
    /\ stats = StatsIdle
    /\ job = JobIdle
    /\ \E kind \in FileKinds, old \in Records, new \in Records :
          disk = [pc |-> "start",
                  kind |-> kind,
                  old |-> old,
                  new |-> new,
                  file |-> Encode(old),
                  tmp |-> None]

\* save_stats (save_national_stats calls it): open(filepath, 'w') truncates
\* the file itself.
SaveStatsOpen ==
    /\ disk.pc = "start"
    /\ disk.kind \in {"stats", "national"}
    /\ disk' = [disk EXCEPT !.pc = "dump", !.file = <<>>]
    /\ UNCHANGED <<prices, op, arg, out, stats, job>>

\* json.dump(stats_data, f): the next chunk of the text reaches the file.
SaveStatsDump ==
    /\ disk.pc = "dump"
    /\ Len(disk.file) < Len(Encode(disk.new))
    /\ disk' = [disk EXCEPT !.file = SubSeq(Encode(disk.new), 1, Len(@) + 1)]
    /\ UNCHANGED <<prices, op, arg, out, stats, job>>

\* The end of the 'with' block: the file is closed.
SaveStatsClose ==
    /\ disk.pc = "dump"
    /\ disk.file = Encode(disk.new)
    /\ disk' = [disk EXCEPT !.pc = "done"]
    /\ UNCHANGED <<prices, op, arg, out, stats, job>>

\* _atomic_write_json: tmp.write_text opens the temporary file ...
AtomicWriteOpenTmp ==
    /\ disk.pc = "start"
    /\ disk.kind = "archive"
    /\ disk' = [disk EXCEPT !.pc = "tmp", !.tmp = Some(<<>>)]
    /\ UNCHANGED <<prices, op, arg, out, stats, job>>

\* ... and writes the text to it.
AtomicWriteTmp ==
    /\ disk.pc = "tmp"
    /\ Len(Get(disk.tmp)) < Len(Encode(disk.new))
    /\ disk' = [disk EXCEPT !.tmp = Some(SubSeq(Encode(disk.new), 1, Len(Get(@)) + 1))]
    /\ UNCHANGED <<prices, op, arg, out, stats, job>>

\* os.replace(tmp, path).
AtomicWriteReplace ==
    /\ disk.pc = "tmp"
    /\ Get(disk.tmp) = Encode(disk.new)
    /\ disk' = [disk EXCEPT !.pc = "done", !.file = Get(disk.tmp), !.tmp = None]
    /\ UNCHANGED <<prices, op, arg, out, stats, job>>

\* A reader: load_stats of the statistics file; None when json.load raises.
LoadStats ==
    /\ disk.pc # "idle"
    /\ disk.kind \in {"stats", "national"}
    /\ op' = "load_stats"
    /\ out' = Decode(disk.file)
    /\ UNCHANGED <<prices, arg, stats, job, disk>>

\* A reader: _load_raw_prices of the archive file.
LoadRawPrices ==
    /\ disk.pc # "idle"
    /\ disk.kind = "archive"
    /\ op' = "_load_raw_prices"
    /\ out' = Decode(disk.file)
    /\ UNCHANGED <<prices, arg, stats, job, disk>>

NextWrite ==
    \/ SaveStatsOpen
    \/ SaveStatsDump
    \/ SaveStatsClose
    \/ AtomicWriteOpenTmp
    \/ AtomicWriteTmp
    \/ AtomicWriteReplace
    \/ LoadStats
    \/ LoadRawPrices

SpecWrite == InitWrite /\ [][NextWrite]_vars

(***************************************************************************)
(* National averages: StatsCalculator.calculate_national_averages.         *)
(*                                                                         *)
(* Prices are in hundredths of a penny per kWh, amounts in hundredths of a *)
(* pound (avg_payment_per_day_gbp in thousandths), hours in tenths,        *)
(* percentages in hundredths.  The fields that depend on the configured    *)
(* price cap and usage assumptions are left out.                           *)
(***************************************************************************)
\* round(num / den, digits) in units of the last digit kept.  The quotient
\* is a binary float: one that lies half-way between two neighbours in
\* decimal is rounded to either, as its binary value falls.
RoundChoices(num, den) ==
    LET q == num \div den
        r == num % den
    IN  IF 2 * r < den THEN {q}
        ELSE IF 2 * r > den THEN {q + 1}
        ELSE {q, q + 1}

\* int(round(num / den)): a half is exact in binary and goes to the even
\* neighbour.
RoundHalfEven(num, den) ==
    LET q == num \div den
        r == num % den
    IN  IF 2 * r < den THEN q
        ELSE IF 2 * r > den THEN q + 1
        ELSE IF q % 2 = 0 THEN q ELSE q + 1

RECURSIVE SumOf(_, _)
SumOf(records, field) ==
    IF records = <<>> THEN 0
    ELSE records[1][field] + SumOf(Tail(records), field)

\* The values of a field added up and left undivided.
Total(records, field) == [num |-> SumOf(records, field), den |-> 1]

\* sum(values) / len(values), as a fraction.
Mean(records, field) == [num |-> SumOf(records, field), den |-> Len(records)]

\* The mean rounded to the digits the record keeps.
MeanChoices(records, field) ==
    LET m == Mean(records, field) IN RoundChoices(m.num, m.den)

ProductCode == "AGILE-24-10-01"

\* The regional records whose file loads and whose product_code matches, in
\* the order of the configured regions.
LoadedRegions(files) ==
    SelectSeq(Regions, LAMBDA r : IsSome(files[r]) /\ Get(files[r]).product_code = ProductCode)

\* calculate_national_averages: the national records it can return (one,
\* unless a mean lies half-way between two neighbours), or None.
calculate_national_averages(files) ==
    LET source_regions == LoadedRegions(files)
        regional_stats == [i \in 1..Len(source_regions) |-> Get(files[source_regions[i]])]
        num_regions == Len(regional_stats)
        sum_cheapest == SumOf(regional_stats, "cheapest_block")
        sum_daily == SumOf(regional_stats, "daily_average")
        total_negative_slots == Mean(regional_stats, "total_negative_slots")
        total_paid_gbp == Mean(regional_stats, "total_paid_gbp")
        avg_negative_prices ==
            SelectSeq(regional_stats, LAMBDA st : st.avg_negative_price_p_per_kwh > 0)
    IN  IF num_regions = 0 THEN {None}
        ELSE {Some(rec) : rec \in
               [product_code : {ProductCode},
                source_regions : {source_regions},
                days_processed : {SumOf(regional_stats, "days_processed") \div num_regions},
                days_failed : {0},
                cheapest_block : MeanChoices(regional_stats, "cheapest_block"),
                daily_average : MeanChoices(regional_stats, "daily_average"),
                savings_p_per_kwh : RoundChoices(sum_daily - sum_cheapest, num_regions),
                savings_percentage :
                    IF sum_daily > 0
                    THEN RoundChoices(10000 * (sum_daily - sum_cheapest), sum_daily)
                    ELSE {0},
                total_negative_slots :
                    {RoundHalfEven(total_negative_slots.num, total_negative_slots.den)},
                total_negative_hours : MeanChoices(regional_stats, "total_negative_hours"),
                avg_negative_price_p_per_kwh :
                    IF avg_negative_prices = <<>> THEN {0}
                    ELSE MeanChoices(avg_negative_prices, "avg_negative_price_p_per_kwh"),
                total_paid_gbp : MeanChoices(regional_stats, "total_paid_gbp"),
                avg_payment_per_day_gbp :
                    IF total_paid_gbp.num > 0
                    THEN RoundChoices(10 * total_paid_gbp.num, 365 * total_paid_gbp.den)
                    ELSE {0}]}

\* A regional record as calculate_2025_stats builds it.
RegionalRecord(product, days, price, negative) ==
    [product_code |-> product,
     days_processed |-> days[1],
     days_failed |-> days[2],
     cheapest_block |-> price[1],
     daily_average |-> price[2],
     savings_p_per_kwh |-> price[2] - price[1],
     savings_percentage |-> price[3],
     total_negative_slots |-> negative[1],
     total_negative_hours |-> 5 * negative[1],
     avg_negative_price_p_per_kwh |-> negative[2],
     total_paid_gbp |-> negative[3]]

\* Regional records: 4 days processed or 3 with one failed; cheapest block
\* and daily average 14.00 / 18.00 or 14.01 / 18.03 p; no negative slot, 3
\* or 38 of them; and one record of another product.
RegionalDays == {<<4, 0>>, <<3, 1>>}
RegionalPrices == {<<1400, 1800, 2222>>, <<1401, 1803, 2230>>}
RegionalNegatives == {<<0, 0, 0>>, <<3, 150, 10>>, <<38, 150, 100>>}
RegionalRecords ==
    {RegionalRecord(ProductCode, d, p, n) :
        d \in RegionalDays, p \in RegionalPrices, n \in RegionalNegatives}
    \cup {RegionalRecord("OTHER", <<4, 0>>, <<1400, 1800, 2222>>, <<3, 150, 10>>)}

\* The statistics files of the regions: absent (or unreadable), or a record.
InitNational ==
    /\ prices = <<>>
    /\ op = "none"
    /\ out = None
    /\ stats = StatsIdle
    /\ job = JobIdle
    /\ disk = DiskIdle
    /\ \E files \in [RegionSet -> {None} \cup {Some(rec) : rec \in RegionalRecords}] :
          arg = [stats_files |-> files]

CalculateNationalAverages ==
    /\ op = "none"
    /\ op' = "calculate_national_averages"
    /\ out' \in calculate_national_averages(arg.stats_files)
    /\ UNCHANGED <<prices, arg, stats, job, disk>>

NextNational == CalculateNationalAverages

SpecNational == InitNational /\ [][NextNational]_vars

(***************************************************************************)
(* Charging cost: PriceCalculator.calculate_charging_cost.                 *)
(*                                                                         *)
(* The average price is in hundredths of a penny per kWh, the capacity in  *)
(* tenths of a kWh and the cost in hundredths of a pound; a missing        *)
(* argument is None.                                                       *)
(***************************************************************************)
\* Python's "not x" on an optional number: None and zero are false.
Falsy(x) == x = None \/ Get(x) = 0

\* calculate_charging_cost: the values it can return (one, unless the cost
\* lies half-way between two hundredths of a pound).
calculate_charging_cost(average_price, battery_capacity_kwh) ==
    IF Falsy(average_price) \/ Falsy(battery_capacity_kwh) THEN {None}
    ELSE IF Get(average_price) < 0 \/ Get(battery_capacity_kwh) < 0 THEN {None}
    ELSE {Some(cost) :
            cost \in RoundChoices(Get(average_price) * Get(battery_capacity_kwh), 1000)}

\* Inputs: prices of -5.00, -0.01, 0, 0.01, 12.34, 16.50 and 20.00 p/kWh and
\* capacities of -1, 0, 0.1, 5.5, 10 and 13.5 kWh, or nothing.
CostPrices == {None} \cup {Some(p) : p \in {-500, -1, 0, 1, 1234, 1650, 2000}}
CostCapacities == {None} \cup {Some(c) : c \in {-10, 0, 1, 55, 100, 135}}

InitCost ==
    /\ prices = <<>>
    /\ op = "none"
    /\ out = None
    /\ stats = StatsIdle
    /\ job = JobIdle
    /\ disk = DiskIdle
    /\ \E p \in CostPrices, c \in CostCapacities :
          arg = [average_price |-> p, battery_capacity_kwh |-> c]

CalculateChargingCost ==
    /\ op = "none"
    /\ op' = "calculate_charging_cost"
    /\ out' \in calculate_charging_cost(arg.average_price, arg.battery_capacity_kwh)
    /\ UNCHANGED <<prices, arg, stats, job, disk>>

NextCost == CalculateChargingCost

SpecCost == InitCost /\ [][NextCost]_vars

(***************************************************************************)
(* Region request counts: RegionRequestTracker.record_region_request,      *)
(* called by the request handlers of the web workers.                      *)
(*                                                                         *)
(* The directory holds two names, the counts file and its temporary file,  *)
(* each bound to a file body; an open file handle stays on its body when a *)
(* name is rebound.  A body is the JSON text of a counts dictionary, or    *)
(* text that does not parse (an empty or half-written file).               *)
(***************************************************************************)
MaxCalls == 2

Workers == {"w1", "w2"}
RegionCodes == {"A", "B", "ab"}

\* A single upper-case letter.
ValidRegionCode(region_code) == region_code \in {"A", "B"}
CountedRegions == {r \in RegionCodes : ValidRegionCode(r)}

NoCounts == [r \in CountedRegions |-> 0]
Unparseable == [parses |-> FALSE, counts |-> NoCounts]
JsonText(counts) == [parses |-> TRUE, counts |-> counts]

Bodies == 0..(2 * MaxCalls)

WorkerIdle == [pc |-> "idle", region_code |-> "A", counts |-> NoCounts, handle |-> 0]

InitTracker ==
    /\ prices = <<>>
    /\ op = "none"
    /\ arg = NoArg
    /\ out = None
    /\ stats = StatsIdle
    /\ job = [pc |-> "serving",
              workers |-> [w \in Workers |-> WorkerIdle],
              calls |-> [w \in Workers |-> 0],
              recorded |-> NoCounts]
    /\ disk = [pc |-> "counts",
               file |-> 0,
               tmp |-> None,
               body |-> [b \in Bodies |-> IF b = 0 THEN JsonText(NoCounts) ELSE Unparseable],
               next |-> 1]

\* A request handler calls record_region_request: an invalid region code
\* returns False at once.
RecordRegionRequest(w) ==
    /\ job.pc = "serving"
    /\ job.workers[w].pc = "idle"
    /\ job.calls[w] < MaxCalls
    /\ \E region_code \in RegionCodes :
          job' = [job EXCEPT
                    !.calls[w] = @ + 1,
                    !.workers[w] =
                        IF ValidRegionCode(region_code)
                        THEN [WorkerIdle EXCEPT !.pc = "load", !.region_code = region_code]
                        ELSE WorkerIdle]
    /\ UNCHANGED <<prices, op, arg, out, stats, disk>>

\* _load_counts, then the increment on the loaded dictionary: a file that
\* does not parse loads as the empty dictionary.
LoadCounts(w) ==
    /\ job.pc = "serving"
    /\ job.workers[w].pc = "load"
    /\ LET text == disk.body[disk.file]
           counts == IF text.parses THEN text.counts ELSE NoCounts
           region_code == job.workers[w].region_code
       IN  job' = [job EXCEPT
                     !.workers[w].counts = [counts EXCEPT ![region_code] = @ + 1],
                     !.workers[w].pc = "open"]
    /\ UNCHANGED <<prices, op, arg, out, stats, disk>>

\* _save_counts: open(temp_file, 'w') creates the temporary file or
\* truncates the one that is there.
SaveCountsOpen(w) ==
    /\ job.pc = "serving"
    /\ job.workers[w].pc = "open"
    /\ LET b == IF IsSome(disk.tmp) THEN Get(disk.tmp) ELSE disk.next
       IN  /\ disk' = [disk EXCEPT
                         !.tmp = Some(b),
                         !.body[b] = Unparseable,
                         !.next = IF IsSome(disk.tmp) THEN @ ELSE @ + 1]
           /\ job' = [job EXCEPT !.workers[w].handle = b, !.workers[w].pc = "dump"]
    /\ UNCHANGED <<prices, op, arg, out, stats>>

\* _save_counts: json.dump into the open handle, and close.
SaveCountsDump(w) ==
    /\ job.pc = "serving"
    /\ job.workers[w].pc = "dump"
    /\ disk' = [disk EXCEPT !.body[job.workers[w].handle] = JsonText(job.workers[w].counts)]
    /\ job' = [job EXCEPT !.workers[w].pc = "replace"]
    /\ UNCHANGED <<prices, op, arg, out, stats>>

\* _save_counts: os.replace(temp_file, COUNTS_FILE), and the return of
\* record_region_request: True, or False when the temporary file is gone and
\* os.replace raises.
SaveCountsReplace(w) ==
    /\ job.pc = "serving"
    /\ job.workers[w].pc = "replace"
    /\ IF IsSome(disk.tmp)
       THEN /\ disk' = [disk EXCEPT !.file = Get(disk.tmp), !.tmp = None]
            /\ job' = [job EXCEPT
                         !.recorded[job.workers[w].region_code] = @ + 1,
                         !.workers[w] = WorkerIdle]
       ELSE /\ disk' = disk
            /\ job' = [job EXCEPT !.workers[w] = WorkerIdle]
    /\ UNCHANGED <<prices, op, arg, out, stats>>

NextTracker ==
    \E w \in Workers :
        \/ RecordRegionRequest(w)
        \/ LoadCounts(w)
        \/ SaveCountsOpen(w)
        \/ SaveCountsDump(w)
        \/ SaveCountsReplace(w)

SpecTracker == InitTracker /\ [][NextTracker]_vars

(***************************************************************************)
(* Calendar aggregator on raw records: the try/except clauses around the   *)
(* reads of a record's fields.                                             *)
(*                                                                         *)
(* A raw record is a slot and its defect: none, or a valid_from that is    *)
(* missing, is a string that does not parse or is not a string, or a       *)
(* missing valid_to or value_inc_vat.                                      *)
(***************************************************************************)
Defects ==
    {"none", "no_valid_from", "unparseable_valid_from", "nonstring_valid_from",
     "no_valid_to", "no_value_inc_vat"}

Raw(defect, slot) == [defect |-> defect, slot |-> slot]

\* utc_to_uk(price['valid_from']): the exception the expression raises, if
\* any.  utc_to_uk logs and re-raises ValueError and AttributeError.
ValidFromRaises(record) ==
    CASE record.defect = "no_valid_from" -> Some("KeyError")
      [] record.defect = "unparseable_valid_from" -> Some("ValueError")
      [] record.defect = "nonstring_valid_from" -> Some("AttributeError")
      [] OTHER -> None

\* except (KeyError, ValueError, TypeError): continue
GroupingCatches == {"KeyError", "ValueError", "TypeError"}

Returned(value) == [raised |-> None, value |-> value]
Raised(exception) == [raised |-> Some(exception), value |-> <<>>]

\* The records the grouping loop puts into a bucket.
Grouped(records) == SelectSeq(records, LAMBDA r : ValidFromRaises(r) = None)

\* The exceptions of the grouping loop that its except clause lets through.
Escaping(records) ==
    SelectSeq(records, LAMBDA r : /\ ValidFromRaises(r) # None
                                  /\ Get(ValidFromRaises(r)) \notin GroupingCatches)

SlotsOf(records) == [i \in 1..Len(records) |-> records[i].slot]

\* The buckets of raw records, each with the defect it came with.
RawBuckets(records) ==
    LET kept == Grouped(records)
        groups == group_prices_by_date(SlotsOf(kept))
    IN  [g \in 1..Len(groups) |->
            [date |-> groups[g].date,
             prices |-> SelectSeq(kept, LAMBDA r : DateKey(r.slot) = groups[g].date)]]

group_prices_by_date_raw(records) ==
    IF Escaping(records) # <<>>
    THEN Raised(Get(ValidFromRaises(Escaping(records)[1])))
    ELSE Returned(RawBuckets(records))

\* calculate_daily_averages_by_date: sum(p['value_inc_vat'] ...) raises
\* KeyError on a record without a value, and the except clause of the date
\* loop goes on to the next date.
calculate_daily_averages_by_date_raw(records) ==
    IF records = <<>> THEN Returned(<<>>)
    ELSE IF Escaping(records) # <<>>
    THEN Raised(Get(ValidFromRaises(Escaping(records)[1])))
    ELSE LET buckets == RawBuckets(records)
             dates == SortedDates(buckets)
             averaged ==
                 SelectSeq(dates, LAMBDA d :
                     \A i \in 1..Len(PricesOf(buckets, d)) :
                         PricesOf(buckets, d)[i].defect # "no_value_inc_vat")
         IN  Returned([n \in 1..Len(averaged) |->
                 LET date_prices == SlotsOf(PricesOf(buckets, averaged[n]))
                 IN  [date |-> averaged[n],
                      average_price |-> Round2(SumPrices(date_prices), Len(date_prices))]])

\* calculate_cheapest_per_day on records whose only defects are defects of
\* valid_from: the grouping, then the day results of the grouped slots.
calculate_cheapest_per_day_raw(records, duration, now) ==
    IF records = <<>> THEN Returned(<<>>)
    ELSE IF Escaping(records) # <<>>
    THEN Raised(Get(ValidFromRaises(Escaping(records)[1])))
    ELSE Returned(calculate_cheapest_per_day(SlotsOf(Grouped(records)), duration, now))

\* Inputs: records at 23:30 local time of day 2 and 00:00 of day 3, with
\* every defect, in any order.
RawInstants == {2 * DayMinutes + 22 * HourMinutes + i * SlotMinutes : i \in 1..2}
RawRecords ==
    {Raw(d, Slot(vf, SlotMinutes, v)) : d \in Defects, vf \in RawInstants, v \in DayValues}
RawInputs == SeqsUpTo(RawRecords, MaxLen)

ValidFromDefectsOnly(records) ==
    \A i \in 1..Len(records) : records[i].defect \notin {"no_valid_to", "no_value_inc_vat"}

InitRaw ==
    /\ prices \in RawInputs
    /\ op = "none"
    /\ arg = NoArg
    /\ out = None
    /\ stats = StatsIdle
    /\ job = JobIdle
    /\ disk = DiskIdle

GroupPricesByDateRaw ==
    /\ op = "none"
    /\ op' = "group_prices_by_date"
    /\ out' = group_prices_by_date_raw(prices)
    /\ UNCHANGED <<prices, arg, stats, job, disk>>

CalculateDailyAveragesByDateRaw ==
    /\ op = "none"
    /\ op' = "calculate_daily_averages_by_date"
    /\ out' = calculate_daily_averages_by_date_raw(prices)
    /\ UNCHANGED <<prices, arg, stats, job, disk>>

CalculateCheapestPerDayRaw ==
    /\ op = "none"
    /\ ValidFromDefectsOnly(prices)
    /\ \E d \in DayDurations :
        /\ arg' = [duration |-> d, now |-> None]
        /\ out' = calculate_cheapest_per_day_raw(prices, d, None)
    /\ op' = "calculate_cheapest_per_day"
    /\ UNCHANGED <<prices, stats, job, disk>>

NextRaw ==
    \/ GroupPricesByDateRaw
    \/ CalculateDailyAveragesByDateRaw
    \/ CalculateCheapestPerDayRaw

SpecRaw == InitRaw /\ [][NextRaw]_vars

(***************************************************************************)
(* Yearly statistics on raw records: a record of the raw data file may     *)
(* lack the valid_to key or the value_inc_vat key.  The days hold fewer    *)
(* records than the block needs, so find_cheapest_block returns None       *)
(* before it reads any field of a record.                                  *)
(***************************************************************************)
StatsDefects == {"none", "no_valid_to", "no_value_inc_vat"}

\* sorted(prices_data, key=valid_from) on raw records.
SortRawByValidFrom(records) ==
    LET keyed == [i \in 1..Len(records) |->
                     [valid_from |-> records[i].slot.valid_from, record |-> records[i]]]
        sorted == SortByValidFrom(keyed)
    IN  [i \in 1..Len(records) |-> sorted[i].record]

\* The records of the raw data whose valid_from string starts with the date.
RawPricesForDate(all_prices, date) ==
    SelectSeq(all_prices, LAMBDA r : UtcDate(r.slot.valid_from) = date)

\* calculate_daily_average_price on raw records: a missing value_inc_vat is
\* a KeyError, caught, and the result is None.
calculate_daily_average_price_raw(records) ==
    IF \E i \in 1..Len(records) : records[i].defect = "no_value_inc_vat"
    THEN None
    ELSE calculate_daily_average_price(SlotsOf(records))

\* The scan for negative or zero prices raises KeyError at a record: one
\* without value_inc_vat (get() gives 0, then the key is read), or one at a
\* price <= 0 without valid_to.
NegativeScanRaises(record) ==
    \/ record.defect = "no_value_inc_vat"
    \/ record.defect = "no_valid_to" /\ record.slot.value_inc_vat <= 0

\* The position of the first record at which the scan raises, the length of
\* the list plus one if there is none.
NegativeScanStop(records) ==
    IF \E i \in 1..Len(records) : NegativeScanRaises(records[i])
    THEN CHOOSE i \in 1..Len(records) :
            /\ NegativeScanRaises(records[i])
            /\ \A j \in 1..(i - 1) : ~NegativeScanRaises(records[j])
    ELSE Len(records) + 1

StatsRawRecords == {Raw(d, s) : d \in StatsDefects, s \in StatsSlots}
StatsRawInputs == SeqsUpTo(StatsRawRecords, MaxLen)

InitStatsRaw ==
    /\ prices \in StatsRawInputs
    /\ op = "calculate_2025_stats"
    /\ arg = NoArg
    /\ out = None
    /\ stats = [StatsIdle EXCEPT !.pc = "loop"]
    /\ job = JobIdle
    /\ disk = DiskIdle

\* One iteration of the loop over the dates of the year, on raw records.
\* What was appended before an exception stays appended; the handler adds
\* one to failed_days.
StatsProcessDayRaw ==
    /\ stats.pc = "loop"
    /\ stats.current_date <= YearDays - 1
    /\ LET date == stats.current_date
           found == RawPricesForDate(prices, date)
           prices_data == SortRawByValidFrom(found)
           daily_avg == calculate_daily_average_price_raw(prices_data)
           stop == NegativeScanStop(prices_data)
           scanned == SubSeq(prices_data, 1, stop - 1)
       IN  /\ Len(found) < SlotsNeeded(BlockDurationMinutes)
           /\ IF found = <<>>
              THEN stats' = [stats EXCEPT !.failed_days = @ + 1,
                                          !.prices_data = <<>>,
                                          !.current_date = @ + 1]
              ELSE stats' = [stats EXCEPT
                       !.daily_average_prices =
                           IF IsSome(daily_avg) /\ Get(daily_avg) # 0
                           THEN Append(@, Get(daily_avg)) ELSE @,
                       !.negative_slots = @ \o NegativeSlotsOf(SlotsOf(scanned), date),
                       !.total_days = IF stop > Len(prices_data) THEN @ + 1 ELSE @,
                       !.failed_days = IF stop > Len(prices_data) THEN @ ELSE @ + 1,
                       !.prices_data = SlotsOf(prices_data),
                       !.current_date = @ + 1]
    /\ UNCHANGED <<prices, op, arg, out, job, disk>>

NextStatsRaw == StatsProcessDayRaw \/ StatsFinish

SpecStatsRaw == InitStatsRaw /\ [][NextStatsRaw]_vars

(***************************************************************************)
(* Window search: claims.                                                  *)
(***************************************************************************)
BlockContiguous(b) ==
    \A i \in 1..(Len(b.slots) - 1) : b.slots[i].valid_to = b.slots[i + 1].valid_from

HasGap(ps) ==
    LET sp == SortByValidFrom(ps)
    IN  \E i \in 1..(Len(sp) - 1) : sp[i].valid_to # sp[i + 1].valid_from

\* C1: every block returned by find_cheapest_block or find_worst_block, for
\* any slot list and any duration, has each consecutive pair of its slots
\* meeting end to start (valid_to = next valid_from).
C1_Contiguity ==
    (op \in {"find_cheapest_block", "find_worst_block"} /\ IsSome(out))
        => BlockContiguous(Get(out))

\* A block of at least two slots was returned for a list that has a gap.
C1_Witness ==
    /\ op \in {"find_cheapest_block", "find_worst_block"}
    /\ IsSome(out)
    /\ Len(Get(out).slots) >= 2
    /\ HasGap(prices)

\* The windows of k slots, consecutive in valid_from order, that are pairwise
\* contiguous: their first positions in the sorted list.
ContiguousWindows(sp, k) ==
    {i \in 1..(Len(sp) - k + 1) : IsContiguous(SubSeq(sp, i, i + k - 1))}

\* The earliest-starting window of minimal total (hence minimal average).
BestWindow(sp, k) ==
    CHOOSE i \in ContiguousWindows(sp, k) :
        \A j \in ContiguousWindows(sp, k) :
            LET ti == SumPrices(SubSeq(sp, i, i + k - 1))
                tj == SumPrices(SubSeq(sp, j, j + k - 1))
            IN  ti < tj \/ (ti = tj /\ i <= j)

AllHalfHour(ps) == \A i \in 1..Len(ps) : ps[i].valid_to - ps[i].valid_from = SlotMinutes

\* C2: for 30-minute slots unique by valid_from and a duration that is a
\* multiple of half an hour (K slots), find_cheapest_block returns null
\* exactly when there are fewer than K slots or no contiguous K-slot window,
\* and otherwise the earliest contiguous window of minimal average, with
\* average_price = sum/K (to two decimals).
C2_CheapestIsBestWindow ==
    (/\ op = "find_cheapest_block"
     /\ AllHalfHour(prices)
     /\ UniqueValidFrom(prices)
     /\ arg.duration >= SlotMinutes
     /\ arg.duration % SlotMinutes = 0)
        => LET k == SlotsNeeded(arg.duration)
               sp == SortByValidFrom(prices)
           IN  IF ContiguousWindows(sp, k) = {}
               THEN out = None
               ELSE /\ IsSome(out)
                    /\ LET i == BestWindow(sp, k)
                           w == SubSeq(sp, i, i + k - 1)
                       IN  /\ Get(out).slots = w
                           /\ Get(out).start_time = w[1].valid_from
                           /\ Get(out).end_time = w[k].valid_to
                           /\ Get(out).average_price = Round2(SumPrices(w), k)

\* C3: every block returned by find_future_cheapest_block holds only slots
\* with valid_from >= now_utc and each consecutive pair of its slots meets
\* end to start, whatever the order and the gaps of the input.
C3_FutureContiguity ==
    (op = "find_future_cheapest_block" /\ IsSome(out))
        => /\ \A i \in 1..Len(Get(out).slots) : Get(out).slots[i].valid_from >= arg.now
           /\ BlockContiguous(Get(out))

(***************************************************************************)
(* Yearly statistics: claims.                                              *)
(***************************************************************************)
\* The slots of the raw data whose local date is the given date, in
\* valid_from order.
LocalSlotsOfDate(all_prices, date) ==
    SortByValidFrom(SelectSeq(all_prices, LAMBDA p : UkDate(p.valid_from) = date))

\* C4: in the yearly statistics the slots attributed to a date D are exactly
\* the slots whose local-zone date of valid_from is D (a slot at 23:30 UTC in
\* summer time counts under the next date).
C4_LocalDateBucketing ==
    [][StatsProcessDay =>
          stats'.prices_data = LocalSlotsOfDate(prices, stats.current_date)]_vars

(***************************************************************************)
(* Calendar aggregator: claims.                                            *)
(***************************************************************************)
\* The slots of a list whose local date is the given date, in input order.
SlotsOfLocalDate(ps, date) == SelectSeq(ps, LAMBDA p : UkDate(p.valid_from) = date)

LocalDatesOf(ps) == {UkDate(ps[i].valid_from) : i \in 1..Len(ps)}

AscendingDates(records) ==
    \A i \in 1..(Len(records) - 1) : records[i].date < records[i + 1].date

BlockValidFroms(b) == {b.slots[i].valid_from : i \in 1..Len(b.slots)}

\* C6: in every day result of cheapest_per_day that has a cheapest block and
\* a cheapest remaining block, the two blocks share no valid_from.
C6_RemainingDisjoint ==
    op = "calculate_cheapest_per_day" =>
        \A n \in 1..Len(out) :
            (IsSome(out[n].cheapest_block) /\ IsSome(out[n].cheapest_remaining_block))
                => BlockValidFroms(Get(out[n].cheapest_block))
                       \cap BlockValidFroms(Get(out[n].cheapest_remaining_block)) = {}

\* A day result with both blocks.
C6_Witness ==
    /\ op = "calculate_cheapest_per_day"
    /\ \E n \in 1..Len(out) :
          /\ IsSome(out[n].cheapest_block)
          /\ IsSome(out[n].cheapest_remaining_block)

(***************************************************************************)
(* Incremental update planner: claims.                                     *)
(***************************************************************************)
\* C7: determine_fetch_plan returns no plan whenever the existing slots hold,
\* at any position of the list, a slot whose local date of valid_from is
\* strictly after today's local date.
C7_NoPlanWhenTomorrowPresent ==
    (/\ op = "determine_fetch_plan"
     /\ \E i \in 1..Len(prices) : UkDate(prices[i].valid_from) > UkDate(arg.now))
        => out = None

LatestValidTo(ps) == CHOOSE t \in {ps[i].valid_to : i \in 1..Len(ps)} :
                        \A i \in 1..Len(ps) : ps[i].valid_to <= t

\* C8: a plan's window ends at the UTC instant of the local midnight that
\* starts the day after tomorrow; without existing data it starts at local
\* midnight of today (reason no_existing_data_fetch_today_and_tomorrow); with
\* existing data it starts at their maximum valid_to, the reason being
\* gap_fetch_from_last_to_through_tomorrow exactly when the local date of
\* that maximum is <= today - 2, covers_today_fetch_today_and_tomorrow else.
C8_PlanWindow ==
    (op = "determine_fetch_plan" /\ IsSome(out)) =>
        LET plan == Get(out)
            today == UkDate(arg.now)
        IN  /\ utc_to_uk(plan.period_to) = (today + 2) * DayMinutes
            /\ prices = <<>> =>
                  /\ utc_to_uk(plan.period_from) = today * DayMinutes
                  /\ plan.reason = "no_existing_data_fetch_today_and_tomorrow"
            /\ prices # <<>> =>
                  /\ plan.period_from = LatestValidTo(prices)
                  /\ plan.reason =
                        IF UkDate(LatestValidTo(prices)) <= today - 2
                        THEN "gap_fetch_from_last_to_through_tomorrow"
                        ELSE "covers_today_fetch_today_and_tomorrow"

\* A plan for existing data whose window ends at a local midnight of summer
\* time, which is not a UTC midnight.
C8_Witness ==
    /\ op = "determine_fetch_plan"
    /\ IsSome(out)
    /\ prices # <<>>
    /\ Get(out).period_to % DayMinutes # 0

\* C9: validate_series returns no defect exactly when the series has no
\* duplicate valid_from, valid_from increases through the list, every slot
\* lasts 30 minutes and every slot starts at the previous slot's valid_to.
C9_ValidateExact ==
    op = "validate_price_series" =>
        (out = <<>>
            <=> /\ UniqueValidFrom(prices)
                /\ \A i \in 1..(Len(prices) - 1) :
                      prices[i].valid_from < prices[i + 1].valid_from
                /\ AllHalfHour(prices)
                /\ \A i \in 1..(Len(prices) - 1) :
                      prices[i + 1].valid_from = prices[i].valid_to)

(***************************************************************************)
(* Daily update job: claims.                                               *)
(***************************************************************************)
FailedRegions == {job.failed[i].region : i \in 1..Len(job.failed)}

\* C10: for every region the loop has processed, a non-empty result of the
\* validation leaves the region's archive as it was before the run and the
\* region recorded as failed; an archive that differs from what it was
\* before the run is the merged series of that archive and the fetched slots
\* (existing + fetched, deduplicated), and its validation returned, and
\* returns, no defect.
C10_WriteOnlyAfterValidation ==
    op = "main" =>
        \A i \in 1..(job.idx - 1) :
            LET r == Regions[i]
            IN  /\ (IsSome(job.errs[r]) /\ Get(job.errs[r]) # <<>>) =>
                      /\ job.raw[r] = job.before[r]
                      /\ r \in FailedRegions
                /\ job.raw[r] # job.before[r] =>
                      /\ job.errs[r] = Some(<<>>)
                      /\ job.raw[r] =
                            dedupe_sort_prices(job.before[r]
                                \o dedupe_sort_prices(job.response[r].results))
                      /\ validate_price_series(job.raw[r]) = <<>>

\* The service answered for a region, the merged series had a defect, and
\* the region is recorded as failed.
C10_Witness ==
    /\ op = "main"
    /\ \E i \in 1..(job.idx - 1) :
          /\ job.response[Regions[i]].status = "ok"
          /\ IsSome(job.errs[Regions[i]])
          /\ Get(job.errs[Regions[i]]) # <<>>
          /\ Regions[i] \in FailedRegions

\* C11: in a run in which a region failed, the statistics step and the cache
\* step are executed for no region (no statistics record is touched), and
\* the run ends with an error status.
C11_FailFast ==
    (op = "main" /\ job.failed # <<>>) =>
        /\ job.stats_calls = <<>>
        /\ job.cache_calls = <<>>
        /\ \A k \in StatsKeys : job.stats_files[k] = "old"
        /\ job.pc \in {"regions", "done"}
        /\ job.pc = "done" => job.status = Some(1)

\* A run in which one region failed and another succeeded has ended.
C11_Witness ==
    /\ op = "main"
    /\ job.pc = "done"
    /\ job.failed # <<>>
    /\ job.succeeded # <<>>

\* C12: at the end of a run, either every regional statistics record and the
\* national record were rewritten by the run, or none of them was touched.
C12_StatsAllOrNothing ==
    (op = "main" /\ job.pc = "done") =>
        \/ \A k \in StatsKeys : job.stats_files[k] = "new"
        \/ \A k \in StatsKeys : job.stats_files[k] = "old"

(***************************************************************************)
(* Persistence: claims.                                                    *)
(***************************************************************************)
\* C13: a read that runs concurrently with a write of a statistics record,
\* of the national record or of a historical archive returns the whole old
\* record or the whole new one.
C13_ReadsWholeRecord ==
    op \in {"load_stats", "_load_raw_prices"} =>
        out \in {Some(disk.old), Some(disk.new)}

(***************************************************************************)
(* Incremental update planner: claims on dedupe_sort_prices.               *)
(***************************************************************************)
\* C14: dedupe_and_sort is idempotent: applied to its own output it returns
\* that output.
C14_DedupeIdempotent ==
    op = "dedupe_sort_prices" => dedupe_sort_prices(out) = out

\* A list out of order, with a repeated valid_from, has been deduplicated.
C14_Witness ==
    /\ op = "dedupe_sort_prices"
    /\ Len(out) < Len(prices)
    /\ \E i \in 1..(Len(prices) - 1) : prices[i].valid_from > prices[i + 1].valid_from

FirstIndexOf(ps, valid_from) ==
    MinOf({i \in 1..Len(ps) : ps[i].valid_from = valid_from})

\* C15: the output of dedupe_and_sort holds exactly one slot per valid_from
\* of the input, namely the first slot of that valid_from in input order, and
\* is in strictly ascending order of valid_from.
C15_DedupeFirstWinsSorted ==
    op = "dedupe_sort_prices" =>
        /\ \A i \in 1..(Len(out) - 1) : out[i].valid_from < out[i + 1].valid_from
        /\ {out[i].valid_from : i \in 1..Len(out)}
              = {prices[i].valid_from : i \in 1..Len(prices)}
        /\ \A i \in 1..Len(out) : out[i] = prices[FirstIndexOf(prices, out[i].valid_from)]

\* Two different slots of one valid_from were in the input.
C15_Witness ==
    /\ op = "dedupe_sort_prices"
    /\ \E i, j \in 1..Len(prices) :
          /\ i < j
          /\ prices[i].valid_from = prices[j].valid_from
          /\ prices[i] # prices[j]
          /\ prices[i] \in Range(out)


(***************************************************************************)
(* National averages: claims.                                              *)
(***************************************************************************)
\* The regional records calculate_national_averages loaded.
LoadedRecords ==
    LET rs == LoadedRegions(arg.stats_files)
    IN  [i \in 1..Len(rs) |-> Get(arg.stats_files[rs[i]])]

NationalDone == op = "calculate_national_averages"

AllSame(records, field) ==
    \A i, j \in 1..Len(records) : records[i][field] = records[j][field]

\* C16: when the N >= 1 loaded regional records all carry the same
\* total_negative_slots S, the national record carries S, not N x S; equal
\* total_negative_hours and equal total_paid_gbp are reproduced likewise.
C16_NationalMeanNotSum ==
    (NationalDone /\ LoadedRecords # <<>>) =>
        /\ IsSome(out)
        /\ \A field \in {"total_negative_slots", "total_negative_hours", "total_paid_gbp"} :
              AllSame(LoadedRecords, field) => Get(out)[field] = LoadedRecords[1][field]

C16_Witness ==
    /\ NationalDone
    /\ Len(LoadedRecords) = 2
    /\ LoadedRecords[1].total_negative_slots = 38
    /\ LoadedRecords[2].total_negative_slots = 38
    /\ LoadedRecords[1].total_paid_gbp = LoadedRecords[2].total_paid_gbp
    /\ IsSome(out)
    /\ Get(out).total_negative_slots = 38
    /\ Get(out).total_negative_hours = 190

NumericFields ==
    {"days_processed", "days_failed", "cheapest_block", "daily_average",
     "savings_p_per_kwh", "savings_percentage", "total_negative_slots",
     "total_negative_hours", "avg_negative_price_p_per_kwh", "total_paid_gbp"}

\* The arithmetic mean of a field, up to the rounding of the output: either
\* neighbour when the mean is not a whole number of output units.
IsMeanOf(value, records, field) ==
    LET sum == SumOf(records, field)
        n == Len(records)
    IN  IF sum % n = 0 THEN value = sum \div n
        ELSE value \in {sum \div n, (sum \div n) + 1}

\* C17: every numeric field of the national record is the arithmetic mean
\* of that field over the loaded regional records, up to the rounding of the
\* output; without a loaded regional record nothing is returned.
C17_EveryFieldIsMean ==
    NationalDone =>
        IF LoadedRecords = <<>> THEN out = None
        ELSE /\ IsSome(out)
             /\ \A field \in NumericFields :
                   IsMeanOf(Get(out)[field], LoadedRecords, field)

(***************************************************************************)
(* Yearly statistics: the negative-pricing summary.                        *)
(***************************************************************************)
\* The slots of the raw data at a price <= 0 that fall on a date of the year
\* (every date of the year that has a slot is a processed day).
NonPositiveSlots ==
    {i \in 1..Len(prices) :
        /\ UtcDate(prices[i].valid_from) \in 0..(YearDays - 1)
        /\ prices[i].value_inc_vat <= 0}

\* C18: the negative-pricing summary counts exactly the slots of the
\* processed days with value_inc_vat <= 0, a price of exactly zero included
\* and a positive price excluded, and total_negative_hours is that count
\* times 0.5 (hours in tenths: count times 5).
C18_NegativeSummary ==
    stats.pc = "done" =>
        /\ Get(out).total_negative_slots = Cardinality(NonPositiveSlots)
        /\ Get(out).total_negative_hours = 5 * Cardinality(NonPositiveSlots)
        /\ \A k \in 1..Len(stats.negative_slots) :
              stats.negative_slots[k].price_p_per_kwh <= 0

C18_Witness ==
    /\ stats.pc = "done"
    /\ \E i, j, k \in 1..Len(prices) :
          /\ prices[i].value_inc_vat = 0
          /\ prices[j].value_inc_vat < 0
          /\ prices[k].value_inc_vat > 0
          /\ prices[i].valid_from # prices[j].valid_from
          /\ prices[j].valid_from # prices[k].valid_from
          /\ prices[i].valid_from # prices[k].valid_from
    /\ Get(out).days_processed >= 1
    /\ Get(out).total_negative_slots = 2
    /\ Get(out).total_negative_hours = 10

C20_ChargingCost ==
    op = "calculate_charging_cost" =>
        LET p == arg.average_price
            c == arg.battery_capacity_kwh
        IN  IF IsSome(p) /\ IsSome(c) /\ Get(p) >= 0 /\ Get(c) >= 0
            THEN /\ IsSome(out)
                 /\ Get(out) \in RoundChoices(Get(p) * Get(c), 1000)
            ELSE out = None

(***************************************************************************)
(* Region request counts: claims.                                          *)
(***************************************************************************)
AllCallsReturned == \A w \in Workers : job.workers[w].pc = "idle"

\* C21: record_region_request is safe under concurrent calls: once every
\* call has returned, the counts file parses and the stored count of each
\* region is the number of calls that returned True for it.
C21_NoLostRequest ==
    (job.pc = "serving" /\ AllCallsReturned) =>
        /\ disk.body[disk.file].parses
        /\ \A r \in CountedRegions : disk.body[disk.file].counts[r] = job.recorded[r]

(***************************************************************************)
(* Daily update job: the region loop.                                      *)
(***************************************************************************)
\* The regions of a list of regions, in the order of the configuration.
InConfiguredOrder(rs) ==
    \A i, j \in 1..Len(rs) :
        i < j => \E a, b \in 1..Len(Regions) : a < b /\ Regions[a] = rs[i] /\ Regions[b] = rs[j]

FailedInOrder == [i \in 1..Len(job.failed) |-> job.failed[i].region]

\* C22: a failure of one region does not stop the others: the loop attempts
\* the configured regions one by one in order, each attempted region is in
\* exactly one of succeeded and failed (once), a region not yet attempted is
\* in neither, and the loop is left only after the last region.
C22_EveryRegionAttempted ==
    op = "main" =>
        /\ job.idx \in 1..(Len(Regions) + 1)
        /\ job.pc # "regions" => job.idx = Len(Regions) + 1
        /\ Len(job.succeeded) + Len(job.failed) = job.idx - 1
        /\ Range(job.succeeded) \cap FailedRegions = {}
        /\ Range(job.succeeded) \cup FailedRegions = {Regions[i] : i \in 1..(job.idx - 1)}
        /\ InConfiguredOrder(job.succeeded)
        /\ InConfiguredOrder(FailedInOrder)

\* The first region failed, the second was attempted after it and succeeded.
C22_Witness ==
    /\ op = "main"
    /\ job.pc = "done"
    /\ FailedRegions = {Regions[1]}
    /\ job.succeeded = <<Regions[2]>>

(***************************************************************************)
(* Window search: the order of the input.                                  *)
(***************************************************************************)
Reorderings(n) == {f \in [1..n -> 1..n] : \A i, j \in 1..n : f[i] = f[j] => i = j}

Permuted(ps, f) == [i \in 1..Len(ps) |-> ps[f[i]]]

\* C23: for a slot list with unique valid_from, find_cheapest_block and
\* find_worst_block return the same block (start, end, average, slots) for
\* every permutation of the list.
C23_OrderIndependent ==
    /\ op = "find_cheapest_block" =>
          \A f \in Reorderings(Len(prices)) :
              find_cheapest_block(Permuted(prices, f), arg.duration) = out
    /\ op = "find_worst_block" =>
          \A f \in Reorderings(Len(prices)) :
              find_worst_block(Permuted(prices, f), arg.duration) = out

\* A list of three slots in reverse chronological order gave a block of two.
C23_Witness ==
    /\ op = "find_cheapest_block"
    /\ Len(prices) = 3
    /\ prices[1].valid_from > prices[2].valid_from
    /\ prices[2].valid_from > prices[3].valid_from
    /\ IsSome(out)
    /\ Len(Get(out).slots) = 2
    /\ Get(out).slots[1].valid_from < Get(out).slots[2].valid_from

(***************************************************************************)
(* Calendar aggregator on raw records: claims.                             *)
(***************************************************************************)
WellFormed(records) == SelectSeq(records, LAMBDA r : r.defect = "none")

SingleMalformed(records) ==
    Cardinality({i \in 1..Len(records) : records[i].defect # "none"}) = 1

\* C24: with a single malformed record in the input, no exception escapes
\* group_prices_by_date, calculate_daily_averages_by_date and
\* calculate_cheapest_per_day, and what they return is what they return for
\* the input without the malformed record.
C24_MalformedSkipped ==
    SingleMalformed(prices) =>
        /\ op = "group_prices_by_date" =>
              out = group_prices_by_date_raw(WellFormed(prices))
        /\ op = "calculate_daily_averages_by_date" =>
              out = calculate_daily_averages_by_date_raw(WellFormed(prices))
        /\ op = "calculate_cheapest_per_day" =>
              out = calculate_cheapest_per_day_raw(WellFormed(prices), arg.duration, arg.now)

(***************************************************************************)
(* Calendar aggregator: the cheapest remaining block.                      *)
(***************************************************************************)
\* C25: with now given, in a day result whose cheapest block starts strictly
\* after now, every slot of a cheapest remaining block has valid_from >= now
\* and is no slot of the cheapest block.
C25_RemainingIsFuture ==
    (op = "calculate_cheapest_per_day" /\ IsSome(arg.now)) =>
        \A n \in 1..Len(out) :
            (/\ IsSome(out[n].cheapest_block)
             /\ Get(out[n].cheapest_block).start_time > Get(arg.now)
             /\ IsSome(out[n].cheapest_remaining_block))
                => LET rem == Get(out[n].cheapest_remaining_block).slots
                       cheapest == Get(out[n].cheapest_block).slots
                   IN  \A i \in 1..Len(rem) :
                           /\ rem[i].valid_from >= Get(arg.now)
                           /\ rem[i] \notin Range(cheapest)
                           /\ rem[i].valid_from \notin BlockValidFroms(Get(out[n].cheapest_block))

\* The day's slots outside the cheapest block, in chronological order.
OutsideCheapest(date, cheapest_block) ==
    SortByValidFrom(
        SelectSeq(prices, LAMBDA p : /\ DateKey(p) = date
                                     /\ p \notin Range(cheapest_block.slots)))

\* C26: once the day's cheapest block has started (start <= now), the
\* cheapest remaining block is the earliest contiguous K-slot window of
\* lowest average among all the day's slots outside the cheapest block, past
\* and future, whatever now is (null when there is no such window).
C26_RemainingAfterStart ==
    (/\ op = "calculate_cheapest_per_day"
     /\ IsSome(arg.now)
     /\ UniqueValidFrom(prices))
        => \A n \in 1..Len(out) :
              (/\ IsSome(out[n].cheapest_block)
               /\ Get(out[n].cheapest_block).start_time <= Get(arg.now))
                  => LET k == SlotsNeeded(arg.duration)
                         rest == OutsideCheapest(out[n].date, Get(out[n].cheapest_block))
                     IN  IF ContiguousWindows(rest, k) = {}
                         THEN out[n].cheapest_remaining_block = None
                         ELSE /\ IsSome(out[n].cheapest_remaining_block)
                              /\ Get(out[n].cheapest_remaining_block).slots =
                                    LET i == BestWindow(rest, k)
                                    IN  SubSeq(rest, i, i + k - 1)

(***************************************************************************)
(* Yearly statistics: failed days.                                         *)
(***************************************************************************)
\* C27: every date of the year is counted once, as processed or as failed
\* (days_processed + days_failed is the number of dates iterated), and a date
\* that is counted as failed, for want of slots or because its processing
\* raises, adds nothing to the cheapest-block prices, the daily averages or
\* the negative slots.
C27_FailedDaySkipped ==
    [][StatsProcessDayRaw =>
          /\ stats'.total_days + stats'.failed_days = stats'.current_date
          /\ stats'.total_days + stats'.failed_days = stats.total_days + stats.failed_days + 1
          /\ stats'.failed_days = stats.failed_days + 1 =>
                /\ stats'.total_days = stats.total_days
                /\ stats'.cheapest_block_prices = stats.cheapest_block_prices
                /\ stats'.daily_average_prices = stats.daily_average_prices
                /\ stats'.negative_slots = stats.negative_slots]_vars

(***************************************************************************)
(* Daily update job: the merge of the archive with a fetched batch.        *)
(***************************************************************************)
ValidFromsOf(ps) == {ps[i].valid_from : i \in 1..Len(ps)}

Ascending(ps) == \A i \in 1..(Len(ps) - 1) : ps[i].valid_from < ps[i + 1].valid_from

\* C28: for every split of the list into an existing series E with unique
\* valid_from followed by a fetched batch F, dedupe_sort_prices(E ++ F) holds
\* every slot of E unchanged, its slot of a valid_from of E is the slot of E,
\* it is what the job computes by deduplicating F first, and when every
\* valid_from of F occurs in E it is E sorted.
C28_MergeKeepsArchive ==
    op = "dedupe_sort_prices" =>
        \A n \in 0..Len(prices) :
            LET E == SubSeq(prices, 1, n)
                F == SubSeq(prices, n + 1, Len(prices))
            IN  UniqueValidFrom(E) =>
                    /\ Range(E) \subseteq Range(out)
                    /\ \A i \in 1..Len(out) :
                          out[i].valid_from \in ValidFromsOf(E) => out[i] \in Range(E)
                    /\ out = dedupe_sort_prices(E \o dedupe_sort_prices(F))
                    /\ ValidFromsOf(F) \subseteq ValidFromsOf(E) =>
                          /\ Len(out) = Len(E)
                          /\ Range(out) = Range(E)
                          /\ Ascending(out)

\* An archive of two slots given out of order and a fetched slot with the
\* valid_from of one of them and another content.
C28_Witness ==
    /\ op = "dedupe_sort_prices"
    /\ Len(prices) = 3
    /\ prices[1].valid_from > prices[2].valid_from
    /\ prices[3].valid_from = prices[2].valid_from
    /\ prices[3] # prices[2]
    /\ out = <<prices[2], prices[1]>>

(***************************************************************************)
(* Calendar aggregator: the order of the block averages.                   *)
(***************************************************************************)
\* C29: in every day result over slots with unique valid_from that has a
\* cheapest block, the average price of a cheapest remaining block is at
\* least the average price of the cheapest block, and so is the average
\* price of the worst block.
C29_CheapestIsLowest ==
    (op = "calculate_cheapest_per_day" /\ UniqueValidFrom(prices)) =>
        \A n \in 1..Len(out) :
            IsSome(out[n].cheapest_block) =>
                /\ IsSome(out[n].cheapest_remaining_block) =>
                      Get(out[n].cheapest_remaining_block).average_price
                          >= Get(out[n].cheapest_block).average_price
                /\ IsSome(out[n].worst_block) =>
                      Get(out[n].worst_block).average_price
                          >= Get(out[n].cheapest_block).average_price

(***************************************************************************)
(* Window search: windows rejected by the duration check.                  *)
(***************************************************************************)
\* The windows of k slots that pass the contiguity check and the duration
\* check: their first positions in the sorted list.
PassingWindows(sp, k, duration) ==
    {i \in ContiguousWindows(sp, k) : ~DurationMismatch(SubSeq(sp, i, i + k - 1), duration)}

WindowTotal(sp, k, i) == SumPrices(SubSeq(sp, i, i + k - 1))

\* C30: a window that the duration check rejects has no influence on the
\* result of find_cheapest_block and find_worst_block: the result is null
\* exactly when no window passes the contiguity check and the duration
\* check, and otherwise it is a window that passes both, of the lowest
\* (for find_worst_block the highest) average among those that pass both.
C30_RejectedWindowIgnored ==
    (/\ op \in {"find_cheapest_block", "find_worst_block"}
     /\ arg.duration >= SlotMinutes)
        => LET k == SlotsNeeded(arg.duration)
               sp == SortByValidFrom(prices)
               passing == PassingWindows(sp, k, arg.duration)
           IN  IF passing = {}
               THEN out = None
               ELSE /\ IsSome(out)
                    /\ \E i \in passing :
                          /\ Get(out).slots = SubSeq(sp, i, i + k - 1)
                          /\ \A j \in passing :
                                IF op = "find_cheapest_block"
                                THEN WindowTotal(sp, k, i) <= WindowTotal(sp, k, j)
                                ELSE WindowTotal(sp, k, i) >= WindowTotal(sp, k, j)
====
